---- MODULE Spec2Model ----
(***************************************************************************)
(* Model of the blockchain-transaction indexing service:                   *)
(*   - the wallet-auth gate and the nonce endpoint over the KV store       *)
(*     (api/src/http/middleware/wallet_auth.rs, api/src/http/routes/auth.rs)*)
(*   - the Kafka ingestion loop, bulk insert, DLQ and the event bridge     *)
(*     (api/src/ingest/kafka.rs, normalize.rs, bridge.rs,                  *)
(*      api/src/repository/transactions.rs)                                *)
(*   - the live subscription session actor (api/src/ws/tx.rs, ws/mod.rs)   *)
(*     with its intervals, its filter function and its outbound limiter    *)
(*   - the HTTP rate limit (api/src/http/middleware/ratelimit.rs)          *)
(*   - the cached query endpoint (api/src/http/routes/transactions.rs,    *)
(*     api/src/cache.rs, api/src/repository/transactions.rs)               *)
(* Each subsystem has its own next-state relation and specification; the   *)
(* variables of the other subsystems stay unchanged under it.              *)
(***************************************************************************)
EXTENDS Integers, Sequences, FiniteSets, TLC

(***************************************************************************)
(* Bounds of the model                                                     *)
(***************************************************************************)
\* number of protected/bypassed HTTP requests that enter the gate
MaxReqs == 2
\* number of nonces the nonce endpoint hands out
MaxNonce == 2
\* last tick of the model clock
MaxTime == 3

None == "none"
\* "no value" of the KV store (issued nonces are 1, 2, ...)
NoNonce == 0

VARIABLES
    \* ---- wallet auth ----
    redis,      \* AppState.redis is Some(..) (fixed at start-up)
    kv,         \* KV store: address -> stored nonce or None
    nextNonce,  \* next fresh value generate_nonce() returns
    nonceResp,  \* response of the last get_nonce call
    req,        \* per request: position in WalletAuthMiddleware::call
    lastResp,   \* response of the request that finished last (with what
                \* the request presented: late = its nonce had already been
                \* used by a forwarded request, signed = its signature verifies)
    fwd,        \* history: <<address, nonce>> -> number of gated requests forwarded
    authed,     \* history: <<address, nonce>> forwarded while still the stored
                \* binding, and no nonce issued for the address since
    delFailed,  \* history: some DEL command of the gate has failed
    \* ---- ingestion (KafkaIngestion::run and what it calls) ----
    postgres,        \* AppState.postgres is Some(..) (fixed at start-up)
    ipc,             \* position of the ingestion task: "recv" | "insert" | "exited"
    batch,           \* run: the in-memory batch
    last_poll,       \* run: time of the last flush
    processed_batch, \* process_batch: the clone handed to the repository
    chunk_at,        \* bulk_insert_or_ignore: index of the next chunk's first entry
    inserted,        \* bulk_insert_or_ignore: rows_affected summed over the chunks
    skipped,         \* bulk_insert_or_ignore: chunk.len() - rows_affected summed
    errors,          \* bulk_insert_or_ignore: signatures of the failed chunks
    attempts,        \* process_batch: bulk_insert_or_ignore calls of the current or
                     \* last flush (retry_count + 1; the call has no Err return,
                     \* so the Err arm of the retry loop is never taken)
    store,           \* table solana_transactions, in insertion order
    dlq,             \* records acknowledged by the DLQ topic, in order
    bridge,          \* events sent into the WsBridge channel, in order
    received,        \* history: payloads delivered by consumer.recv(), in order
    \* ---- live session (TxWebSocket actor) and the event distributor ----
    subscriptions,           \* ConnectionState.subscriptions
    last_activity,           \* ConnectionState.last_activity
    client_msg_count,        \* ConnectionState.client_msg_count
    client_msg_window_start, \* ConnectionState.client_msg_window_start
    event_count,             \* ConnectionState.event_count
    event_window_start,      \* ConnectionState.event_window_start
    last_ping,               \* TxWebSocket.last_ping
    next_sub,                \* next value generate_subscription_id() returns
    outbox,                  \* frames written to the client, in order
    closed,                  \* close code sent with ctx.close(), or None
    stopped,                 \* ctx.stop() was called
    frames_in,               \* history: number of frames the client has sent
    emitted,                 \* history: number of events put on the bridge
    ping_due,                \* next firing of the ping interval of Actor::started
    idle_due,                \* next firing of the idle-check interval
    client_log,              \* history: per client message that reached the rate
                             \* check, the message, its time and whether it was
                             \* dispatched
    owed,                    \* history: <<subscription id, transaction>> of the
                             \* handled events that matched a live subscription
    \* ---- matches_filters applied to one transaction and one filter set ----
    match_tx,       \* the transaction (a JSON value)
    match_filters,  \* the TransactionFilters
    match_done,     \* matches_filters has been called
    match_result,   \* what it returned
    \* ---- the outbound limiter of a session, called on its own ----
    event_log,      \* history: per check_event_rate_limit call, its time and result
    \* ---- HTTP rate limit (RateLimitMiddleware over the shared store) ----
    rl_enabled,     \* rate_limit.enabled (fixed at start-up)
    rl_store,       \* RateLimitStore: key -> WindowEntry, or NoEntry
    rl_pending,     \* requests between the IP section and the user section
    rl_n,           \* number of requests that have entered the middleware
    rl_log,         \* history: per pass through a critical section, the key, the
                    \* time, the verdict and the entry it left
    rl_out,         \* history: the response of each request, in order of completion
    \* ---- cached query endpoint (list_transactions) ----
    cache_enabled,  \* cache.enabled (fixed at start-up)
    table,          \* table solana_transactions as the readers see it: rows
                    \* with their created_at
    cache_store,    \* MemoryCache.store: entries (key, value, expires_at)
    calls,          \* the list requests, in order of arrival
    \* ---- clock ----
    now

authVars == <<redis, kv, nextNonce, nonceResp, req, lastResp, fwd, authed, delFailed>>
ingestVars == <<postgres, ipc, batch, last_poll, processed_batch, chunk_at, inserted,
                skipped, errors, attempts, store, dlq, bridge, received>>
wsVars == <<subscriptions, last_activity, client_msg_count, client_msg_window_start,
            event_count, event_window_start, last_ping, next_sub, outbox, closed,
            stopped, frames_in, emitted, owed, ping_due, idle_due, client_log>>
matchVars == <<match_tx, match_filters, match_done, match_result>>
\* the variables outside the three subsystems
limiterVars == <<event_log>>
rateVars == <<rl_enabled, rl_store, rl_pending, rl_n, rl_log, rl_out>>
queryVars == <<cache_enabled, table, cache_store, calls>>
extVars == <<matchVars, limiterVars, rateVars, queryVars>>
\* the variables the wallet-auth actions leave alone
otherVars == <<ingestVars, wsVars, extVars, now>>
vars == <<authVars, ingestVars, wsVars, extVars, now>>

(***************************************************************************)
(* Wallet auth: addresses, headers, signatures                             *)
(***************************************************************************)
\* Address strings a client can send.  Only their length, their base58
\* decoding and whether the decoded bytes are a curve point matter.
Addresses == {"W1", "Woff", "Wbad"}
AddrLen(a) == CASE a = "W1" -> 44 [] a = "Woff" -> 44 [] OTHER -> 10
\* length of bs58::decode(a), -1 when a is not base58
DecodedLen(a) == CASE a = "W1" -> 32 [] a = "Woff" -> 32 [] OTHER -> 7
\* VerifyingKey::from_bytes succeeds
OnCurve(a) == a = "W1"

Nonces == 1..MaxNonce
ReqIds == 1..MaxReqs

HeaderNames == {"X-Wallet-Address", "X-Wallet-Signature", "X-Nonce"}
\* the order in which the gate lists absent headers
HeaderOrder == <<"X-Wallet-Address", "X-Wallet-Signature", "X-Nonce">>

\* "valid": 64 bytes signed with the address's key over the signing string
\* of this very request; "wrong": 64 bytes that do not verify;
\* "malformed": does not decode to 64 bytes.
SigKinds == {"valid", "wrong", "malformed"}
PathKinds == {"protected", "bypass", "unprotected"}

decode_pubkey_b58(a) == IF DecodedLen(a) = 32 THEN "ok" ELSE "err"
decode_sig(s) == IF s = "malformed" THEN "err" ELSE "ok"
\* Err(InvalidPubkey) | Ok(true) | Ok(false)
verify_ed25519(a, s) ==
    IF ~OnCurve(a) THEN "err" ELSE IF s = "valid" THEN "true" ELSE "false"

is_bypassed(p) == p = "bypass"
is_protected(p) == p = "protected"

Idle == [pc |-> "idle", address |-> None, nonce |-> 0, sig |-> None, late |-> FALSE]
Done == [Idle EXCEPT !.pc = "done"]
NoResp == [out |-> None, missing |-> {}, gated |-> FALSE, late |-> FALSE,
           signed |-> FALSE]

\* what the client of a finished request gets: the gate's own response, or
\* "forwarded" when the request was handed to the inner service
Response(outcome, r, isGated) ==
    [out |-> outcome, missing |-> {}, gated |-> isGated, late |-> r.late,
     signed |-> (r.sig = "valid")]

AuthInit ==
    /\ kv = [a \in Addresses |-> NoNonce]
    /\ nextNonce = 1
    /\ nonceResp = [status |-> None, nonce |-> 0]
    /\ req = [i \in ReqIds |-> Idle]
    /\ lastResp = NoResp
    /\ fwd = [k \in Addresses \X Nonces |-> 0]
    /\ authed = {}
    /\ delFailed = FALSE

\* POST /api/auth/nonce
get_nonce(a, setexOk) ==
    /\ nextNonce <= MaxNonce
    /\ IF AddrLen(a) < 32 \/ AddrLen(a) > 44
       THEN /\ nonceResp' = [status |-> "bad_request", nonce |-> 0]
            /\ UNCHANGED <<kv, nextNonce, authed, req>>
       ELSE IF decode_pubkey_b58(a) = "err"
       THEN /\ nonceResp' = [status |-> "bad_request", nonce |-> 0]
            /\ UNCHANGED <<kv, nextNonce, authed, req>>
       ELSE \* generate_nonce() draws 16 random bytes: a fresh value
            /\ nextNonce' = nextNonce + 1
            /\ IF redis
               THEN IF setexOk
                    THEN /\ kv' = [kv EXCEPT ![a] = nextNonce]
                         /\ nonceResp' = [status |-> "ok", nonce |-> nextNonce]
                         /\ authed' = {k \in authed : k[1] # a}
                         /\ req' = [i \in ReqIds |->
                                      IF req[i].address = a
                                      THEN [req[i] EXCEPT !.late = FALSE]
                                      ELSE req[i]]
                    ELSE /\ nonceResp' = [status |-> "internal", nonce |-> 0]
                         /\ UNCHANGED <<kv, authed, req>>
               ELSE /\ nonceResp' = [status |-> "service_unavailable", nonce |-> 0]
                    /\ UNCHANGED <<kv, authed, req>>
    /\ UNCHANGED <<redis, lastResp, fwd, delFailed>>
    /\ UNCHANGED otherVars

GetNonce == \E a \in Addresses, setexOk \in BOOLEAN : get_nonce(a, setexOk)

\* the nonce binding reaches its TTL
Expire(a) ==
    /\ kv[a] # NoNonce
    /\ kv' = [kv EXCEPT ![a] = NoNonce]
    /\ UNCHANGED <<redis, nextNonce, nonceResp, req, lastResp, fwd, authed, delFailed>>
    /\ UNCHANGED otherVars

ExpireNonce == \E a \in Addresses : Expire(a)

\* WalletAuthMiddleware::call up to the first await (the GET)
CallStart(i, p, missing, a, n, s) ==
    /\ req[i].pc = "idle"
    /\ \A j \in ReqIds : j < i => req[j].pc # "idle"
    /\ LET r == [Idle EXCEPT !.address = a, !.nonce = n, !.sig = s,
                             !.late = (<<a, n>> \in authed)]
       IN
       IF is_bypassed(p) \/ ~is_protected(p)
       THEN /\ req' = [req EXCEPT ![i] = Done]
            /\ lastResp' = Response("forwarded", Idle, FALSE)
       ELSE IF missing # {}
       THEN /\ req' = [req EXCEPT ![i] = Done]
            /\ lastResp' = [Response("bad_request", Idle, TRUE) EXCEPT !.missing = missing]
       ELSE IF ~redis
       THEN /\ req' = [req EXCEPT ![i] = Done]
            /\ lastResp' = Response("internal/redis_unavailable", r, TRUE)
       ELSE /\ req' = [req EXCEPT ![i] = [r EXCEPT !.pc = "get"]]
            /\ UNCHANGED lastResp
    /\ UNCHANGED <<redis, kv, nextNonce, nonceResp, fwd, authed, delFailed>>
    /\ UNCHANGED otherVars

Call ==
    \E i \in ReqIds, p \in PathKinds, missing \in SUBSET HeaderNames,
       a \in Addresses, n \in Nonces, s \in SigKinds :
        CallStart(i, p, missing, a, n, s)

\* the checks with the signature taken before the nonce
GateVerdictSignatureFirst(r, getOk) ==
    IF ~getOk THEN "internal/redis_error"
    ELSE IF decode_pubkey_b58(r.address) = "err" THEN "bad_request/invalid_pubkey"
    ELSE IF decode_sig(r.sig) = "err" THEN "bad_request/invalid_signature"
    ELSE IF verify_ed25519(r.address, r.sig) = "err" THEN "internal/verification_error"
    ELSE IF verify_ed25519(r.address, r.sig) = "false" THEN "unauthorized/invalid_signature"
    ELSE IF kv[r.address] = NoNonce THEN "unauthorized/nonce_missing"
    ELSE IF kv[r.address] # r.nonce THEN "unauthorized/nonce_mismatch"
    ELSE "verified"

\* the checks without the comparison of the stored nonce
GateVerdictAnyNonce(r, getOk) ==
    IF ~getOk THEN "internal/redis_error"
    ELSE IF kv[r.address] = NoNonce THEN "unauthorized/nonce_missing"
    ELSE IF decode_pubkey_b58(r.address) = "err" THEN "bad_request/invalid_pubkey"
    ELSE IF decode_sig(r.sig) = "err" THEN "bad_request/invalid_signature"
    ELSE IF verify_ed25519(r.address, r.sig) = "err" THEN "internal/verification_error"
    ELSE IF verify_ed25519(r.address, r.sig) = "false" THEN "unauthorized/invalid_signature"
    ELSE "verified"

\* the checks between the GET reply and the DEL
GateVerdict(r, getOk) ==
    IF ~getOk THEN "internal/redis_error"
    ELSE IF kv[r.address] = NoNonce THEN "unauthorized/nonce_missing"
    ELSE IF kv[r.address] # r.nonce THEN "unauthorized/nonce_mismatch"
    ELSE IF decode_pubkey_b58(r.address) = "err" THEN "bad_request/invalid_pubkey"
    ELSE IF decode_sig(r.sig) = "err" THEN "bad_request/invalid_signature"
    ELSE IF verify_ed25519(r.address, r.sig) = "err" THEN "internal/verification_error"
    ELSE IF verify_ed25519(r.address, r.sig) = "false" THEN "unauthorized/invalid_signature"
    ELSE "verified"

\* a gate that drops the binding with every attempt it rejects
CallGetConsuming(i, getOk) ==
    /\ req[i].pc = "get"
    /\ LET v == GateVerdict(req[i], getOk) IN
         IF v = "verified"
         THEN /\ req' = [req EXCEPT ![i].pc = "del"]
              /\ UNCHANGED <<lastResp, kv>>
         ELSE /\ req' = [req EXCEPT ![i] = Done]
              /\ lastResp' = Response(v, req[i], TRUE)
              /\ kv' = [kv EXCEPT ![req[i].address] = NoNonce]
    /\ UNCHANGED <<redis, nextNonce, nonceResp, fwd, authed, delFailed>>
    /\ UNCHANGED otherVars

\* the GET is answered and the request runs to its next await or to its response
CallGet(i, getOk) ==
    /\ req[i].pc = "get"
    /\ LET v == GateVerdict(req[i], getOk) IN
         IF v = "verified"
         THEN /\ req' = [req EXCEPT ![i].pc = "del"]
              /\ UNCHANGED lastResp
         ELSE /\ req' = [req EXCEPT ![i] = Done]
              /\ lastResp' = Response(v, req[i], TRUE)
    /\ UNCHANGED <<redis, kv, nextNonce, nonceResp, fwd, authed, delFailed>>
    /\ UNCHANGED otherVars

GetReply == \E i \in ReqIds, getOk \in BOOLEAN : CallGet(i, getOk)

\* the DEL is answered (its error is discarded by unwrap_or_default) and the
\* request is passed to the inner service
CallDel(i, delOk) ==
    /\ req[i].pc = "del"
    /\ kv' = IF delOk THEN [kv EXCEPT ![req[i].address] = NoNonce] ELSE kv
    /\ req' = [req EXCEPT ![i] = Done]
    /\ lastResp' = Response("forwarded", req[i], TRUE)
    /\ fwd' = [fwd EXCEPT ![<<req[i].address, req[i].nonce>>] = @ + 1]
    /\ authed' = IF kv[req[i].address] = req[i].nonce
                 THEN authed \cup {<<req[i].address, req[i].nonce>>}
                 ELSE authed
    /\ delFailed' = (delFailed \/ ~delOk)
    /\ UNCHANGED <<redis, nextNonce, nonceResp>>
    /\ UNCHANGED otherVars

DelReply == \E i \in ReqIds, delOk \in BOOLEAN : CallDel(i, delOk)

AuthNext == GetNonce \/ ExpireNonce \/ Call \/ GetReply \/ DelReply

(***************************************************************************)
(* Ingestion: payloads, normalization, validation                          *)
(***************************************************************************)
\* default_kafka_max_retries
MaxRetries == 5
\* number of messages the consumer delivers
MaxMsgs == 3
\* ingest.db_insert_batch_size, scaled down
BatchSize == 3
\* CHUNK_SIZE of bulk_insert_or_ignore, scaled down with the batch size
ChunkSize == 2
\* kafka.poll_interval_ms, in clock ticks
PollInterval == 2
\* kafka.retry_backoff_ms, in clock ticks
RetryBackoff == 1
\* the payload size limit of parse_raw_message
MaxPayloadBytes == 1048576
\* ingest.emit_ws_events
emit_ws_events == TRUE

\* length of the strings that occur in the payloads
StrLen(s) ==
    CASE s = "" -> 0
      [] s = "S1" -> 2
      [] s = "A" -> 1
      [] s \in {"SigA", "SigB"} -> 88
      [] s \in {"PkA", "PkB"} -> 44
      [] OTHER -> 0

\* Option<Vec<String>>
SomeIds(ids) == [some |-> TRUE, ids |-> ids]
NoIds == [some |-> FALSE, ids |-> <<>>]

RawTx(sig, slot, from, to, lamports) ==
    [signature |-> sig, slot |-> slot, from |-> from, to |-> to, lamports |-> lamports,
     program_ids |-> SomeIds(<<"Prog1">>), instructions |-> 1,
     block_time |-> "2024-01-01T00:00:00Z"]

\* The raw messages of the input topic: bytes (present or not), their length,
\* whether they deserialize into a RawTransaction, and the RawTransaction.
\* NoneInt stands for an absent integer field.
NoneInt == -1000
PayloadNames == {"A", "B", "S1", "empty", "big", "garbage"}
Payload(p) ==
    CASE p = "A" ->
           [present |-> TRUE, size |-> 300, json |-> TRUE,
            raw |-> RawTx("SigA", 5, "PkA", "PkB", 10)]
      [] p = "B" ->
           [present |-> TRUE, size |-> MaxPayloadBytes, json |-> TRUE,
            raw |-> [RawTx("SigB", 0, "PkB", None, NoneInt) EXCEPT
                       !.program_ids = NoIds, !.instructions = NoneInt,
                       !.block_time = "yesterday"]]
      [] p = "S1" ->
           [present |-> TRUE, size |-> 200, json |-> TRUE,
            raw |-> RawTx("S1", 1, None, None, NoneInt)]
      [] p = "empty" ->
           [present |-> TRUE, size |-> 27, json |-> TRUE,
            raw |-> RawTx("", -1, None, None, NoneInt)]
      [] p = "big" ->
           [present |-> TRUE, size |-> MaxPayloadBytes + 1, json |-> TRUE,
            raw |-> RawTx("SigA", 5, "PkA", "PkB", 10)]
      [] OTHER ->
           [present |-> TRUE, size |-> 7, json |-> FALSE,
            raw |-> RawTx("", 0, None, None, NoneInt)]

Ok(v) == [ok |-> TRUE, val |-> v, err |-> None]
Err(e) == [ok |-> FALSE, val |-> None, err |-> e]
ParseError(m, e) == [type |-> "ParseError", field |-> m, reason |-> e]
ValidationError(f, r) == [type |-> "ValidationError", field |-> f, reason |-> r]

\* chrono::DateTime::parse_from_rfc3339(..).timestamp()
parse_from_rfc3339(t) ==
    IF t = "2024-01-01T00:00:00Z" THEN Ok(1704067200) ELSE Err("invalid")

parse_raw_message(p) ==
    IF Payload(p).size > MaxPayloadBytes
    THEN Err(ValidationError("message_size", "Message too large (max 1MB)"))
    ELSE IF ~Payload(p).json
    THEN Err(ParseError(p, "serde_json error"))
    ELSE Ok(Payload(p).raw)

normalize_transaction(raw) ==
    IF StrLen(raw.signature) = 0
    THEN Err(ValidationError("signature", "Signature cannot be empty"))
    ELSE IF raw.slot < 0
    THEN Err(ValidationError("slot", "Slot must be non-negative"))
    ELSE IF raw.program_ids.some /\ Len(raw.program_ids.ids) > 50
    THEN Err(ValidationError("program_ids", "Too many program IDs (max 50)"))
    ELSE IF raw.instructions # NoneInt /\ raw.instructions > 100
    THEN Err(ValidationError("instructions", "Too many instructions (max 100)"))
    ELSE Ok([signature |-> raw.signature,
             slot |-> raw.slot,
             from_pubkey |-> raw.from,
             to_pubkey |-> raw.to,
             lamports |-> raw.lamports,
             program_ids |-> raw.program_ids,
             instructions |-> IF raw.instructions = NoneInt THEN 0 ELSE raw.instructions,
             block_time |-> IF raw.block_time # None /\ parse_from_rfc3339(raw.block_time).ok
                            THEN parse_from_rfc3339(raw.block_time).val
                            ELSE NoneInt])

validate_normalized(tx) ==
    IF StrLen(tx.signature) < 80 \/ StrLen(tx.signature) > 100
    THEN Err(ValidationError("signature", "Invalid signature length"))
    ELSE IF tx.from_pubkey # None /\ StrLen(tx.from_pubkey) # 44
    THEN Err(ValidationError("from_pubkey", "Invalid pubkey length"))
    ELSE IF tx.to_pubkey # None /\ StrLen(tx.to_pubkey) # 44
    THEN Err(ValidationError("to_pubkey", "Invalid pubkey length"))
    ELSE IF tx.lamports # NoneInt /\ tx.lamports < 0
    THEN Err(ValidationError("lamports", "Lamports must be non-negative"))
    ELSE Ok(tx)

process_message(p) ==
    IF ~Payload(p).present
    THEN Err(ParseError("Empty message payload", "No payload"))
    ELSE IF ~parse_raw_message(p).ok THEN parse_raw_message(p)
    ELSE IF ~normalize_transaction(parse_raw_message(p).val).ok
    THEN normalize_transaction(parse_raw_message(p).val)
    ELSE validate_normalized(normalize_transaction(parse_raw_message(p).val).val)

(***************************************************************************)
(* Ingestion: the consumer loop, the bulk insert, the DLQ and the bridge   *)
(***************************************************************************)
IngestInit ==
    /\ ipc = "recv"
    /\ batch = <<>>
    /\ last_poll = 0
    /\ processed_batch = <<>>
    /\ chunk_at = 1
    /\ inserted = 0
    /\ skipped = 0
    /\ errors = <<>>
    /\ attempts = 0
    /\ store = <<>>
    /\ dlq = <<>>
    /\ bridge = <<>>
    /\ received = <<>>

Signatures(txs) == {txs[i].signature : i \in 1..Len(txs)}

\* DlqMessage built by send_to_dlq, with its record key
DlqRaw(p, e) ==
    [key |-> <<"dlq", now>>,
     original_message |-> IF Payload(p).present THEN p ELSE "",
     error |-> e, timestamp |-> now, retry_count |-> 0]

\* DlqMessage built by send_transaction_to_dlq, with its record key
DlqTx(tx, e) ==
    [key |-> tx.signature, original_message |-> tx,
     error |-> e, timestamp |-> now, retry_count |-> 0]

\* WsBridge::emit_transaction_event: the send into the unbounded channel
emit_transaction_event(q, tx) ==
    Append(q, [transaction |-> tx, event_type |-> "transaction"])

\* the events of a batch sent last entry first
RECURSIVE EmitAllReversed(_, _)
EmitAllReversed(q, txs) ==
    IF txs = <<>> THEN q
    ELSE EmitAllReversed(emit_transaction_event(q, txs[Len(txs)]),
                         SubSeq(txs, 1, Len(txs) - 1))

RECURSIVE EmitAll(_, _)
EmitAll(q, txs) ==
    IF txs = <<>> THEN q ELSE EmitAll(emit_transaction_event(q, Head(txs)), Tail(txs))

\* INSERT ... VALUES chunk ON CONFLICT (signature) DO NOTHING: the rows of the
\* chunk whose signature is neither stored nor earlier in the chunk
RECURSIVE InsertOrIgnore(_, _)
InsertOrIgnore(st, chunk) ==
    IF chunk = <<>> THEN st
    ELSE IF Head(chunk).signature \in Signatures(st)
         THEN InsertOrIgnore(st, Tail(chunk))
         ELSE InsertOrIgnore(Append(st, Head(chunk)), Tail(chunk))

Min(a, b) == IF a < b THEN a ELSE b

\* the part of process_batch before the first bulk_insert_or_ignore call,
\* entered from run with the batch b; run sets last_poll when it returns
BeginFlush(b) ==
    IF b = <<>> \/ ~postgres
    THEN \* early return: nothing is cleared
         /\ batch' = b
         /\ last_poll' = now
         /\ UNCHANGED <<ipc, processed_batch, chunk_at, inserted, skipped, errors,
                        attempts>>
    ELSE IF ~(0 < MaxRetries)
    THEN \* the retry loop is not entered
         /\ batch' = <<>>
         /\ last_poll' = now
         /\ UNCHANGED <<ipc, processed_batch, chunk_at, inserted, skipped, errors>>
         /\ attempts' = 0
    ELSE /\ batch' = b
         /\ ipc' = "insert"
         /\ processed_batch' = b
         /\ chunk_at' = 1
         /\ inserted' = 0
         /\ skipped' = 0
         /\ errors' = <<>>
         /\ attempts' = 1
         /\ UNCHANGED last_poll

\* run: consumer.recv() returns Ok(message); the arm runs to its next await
RecvMessage(p, dlqOk) ==
    /\ ipc = "recv"
    /\ Len(received) < MaxMsgs
    /\ received' = Append(received, p)
    /\ LET r == process_message(p) IN
       IF r.ok
       THEN /\ IF Len(batch) + 1 >= BatchSize \/ now - last_poll >= PollInterval
               THEN BeginFlush(Append(batch, r.val))
               ELSE /\ batch' = Append(batch, r.val)
                    /\ UNCHANGED <<ipc, last_poll, processed_batch, chunk_at, inserted,
                                   skipped, errors, attempts>>
            /\ UNCHANGED dlq
       ELSE \* send_to_dlq: one produce, its failure is only logged
            /\ dlq' = IF dlqOk THEN Append(dlq, DlqRaw(p, r.err)) ELSE dlq
            /\ UNCHANGED <<ipc, batch, last_poll, processed_batch, chunk_at, inserted,
                           skipped, errors, attempts>>
    /\ UNCHANGED <<postgres, store, bridge, now>>
    /\ UNCHANGED <<authVars, wsVars, extVars>>

Recv == \E p \in PayloadNames, dlqOk \in BOOLEAN : RecvMessage(p, dlqOk)

\* run: consumer.recv() returns Err; the loop sleeps retry_backoff_ms
RecvError ==
    /\ ipc = "recv"
    /\ now + RetryBackoff <= MaxTime
    /\ now' = now + RetryBackoff
    /\ UNCHANGED ingestVars
    /\ UNCHANGED <<authVars, wsVars, extVars>>

\* bulk_insert_or_ignore: one chunk is executed; after the last chunk the
\* call returns Ok(BatchResult) and process_batch runs to its end
InsertChunk(execOk) ==
    /\ ipc = "insert"
    /\ LET hi == Min(chunk_at + ChunkSize - 1, Len(processed_batch))
           chunk == SubSeq(processed_batch, chunk_at, hi)
           st == IF execOk THEN InsertOrIgnore(store, chunk) ELSE store
           rows_affected == Len(st) - Len(store)
           ins == IF execOk THEN inserted + rows_affected ELSE inserted
       IN
       /\ store' = st
       /\ inserted' = ins
       /\ skipped' = IF execOk THEN skipped + (Len(chunk) - rows_affected) ELSE skipped
       /\ errors' = IF execOk THEN errors
                    ELSE errors \o [i \in 1..Len(chunk) |-> chunk[i].signature]
       /\ IF hi < Len(processed_batch)
          THEN /\ chunk_at' = hi + 1
               /\ UNCHANGED <<ipc, batch, last_poll, bridge>>
          ELSE \* Ok(result): events for processed_batch[..result.inserted]
               /\ chunk_at' = 1
               /\ bridge' = IF emit_ws_events
                            THEN EmitAll(bridge, SubSeq(processed_batch, 1, ins))
                            ELSE bridge
               /\ batch' = <<>>
               /\ last_poll' = now
               /\ ipc' = "recv"
    /\ UNCHANGED <<postgres, processed_batch, attempts, dlq, received, now>>
    /\ UNCHANGED <<authVars, wsVars, extVars>>

Insert == \E execOk \in BOOLEAN : InsertChunk(execOk)

\* time passes
Tick ==
    /\ now < MaxTime
    /\ now' = now + 1
    /\ UNCHANGED ingestVars
    /\ UNCHANGED <<authVars, wsVars, extVars>>

\* main: the shutdown signal arrives, main returns and the runtime drops the
\* spawned ingestion task wherever it is
Shutdown ==
    /\ ipc # "exited"
    /\ ipc' = "exited"
    /\ UNCHANGED <<postgres, batch, last_poll, processed_batch, chunk_at, inserted,
                   skipped, errors, attempts, store, dlq, bridge, received, now>>
    /\ UNCHANGED <<authVars, wsVars, extVars>>

IngestNext == Recv \/ RecvError \/ Insert \/ Tick \/ Shutdown

(***************************************************************************)
(* Live subscription session and the event distributor                     *)
(***************************************************************************)
\* number of frames the client sends
MaxFrames == 3
\* number of events put on the bridge
MaxEvents == 2
\* ws.max_subscriptions_per_conn, scaled down
MaxSubscriptionsPerConn == 2
\* ws.max_client_msg_per_min, scaled down
MaxClientMsgPerMin == 2
\* ws.max_events_per_sec, scaled down
MaxEventsPerSec == 2
\* the 60 s window of check_client_rate_limit, in clock ticks
ClientMsgWindow == 2
\* ws.ping_interval_secs, in clock ticks
PingInterval == 2
\* ws.idle_timeout_secs, in clock ticks
IdleTimeout == 2
\* the 10 s interval of the idle check, in clock ticks
IdleCheckInterval == 1
\* last tick of the clock of a session
WsMaxTime == 3
\* the 1 s window of check_event_rate_limit, in clock ticks
EventWindow == 1
\* number of calls of check_event_rate_limit
MaxChecks == 6

\* TransactionFilters; an unset string field is None, an unset slot NoneInt
NoFilters == [signature |-> None, from |-> None, to |-> None, program_id |-> None,
              slot_from |-> NoneInt, slot_to |-> NoneInt]
FilterSet == {NoFilters,
              [NoFilters EXCEPT !.from = "PkA"],
              [NoFilters EXCEPT !.signature = "SigB", !.slot_to = 3]}

\* the transactions ingestion can commit, as serde_json::to_value gives them
EventTxs == {process_message(p).val : p \in {q \in PayloadNames : process_message(q).ok}}

\* matches_filters.  A null or absent string field reads as None, an absent
\* or non-integer slot as NoneInt: get_i64 gives None for it and the slot
\* checks are skipped.
matches_filters(tx, f) ==
    /\ (f.signature # None => tx.signature = f.signature)
    /\ (f.from # None => tx.from_pubkey = f.from)
    /\ (f.to # None => tx.to_pubkey = f.to)
    /\ (f.program_id # None =>
          /\ tx.program_ids.some
          /\ \E i \in 1..Len(tx.program_ids.ids) : tx.program_ids.ids[i] = f.program_id)
    /\ ((f.slot_from # NoneInt /\ tx.slot # NoneInt) => ~(tx.slot < f.slot_from))
    /\ ((f.slot_to # NoneInt /\ tx.slot # NoneInt) => ~(tx.slot > f.slot_to))

\* the JSON values and filter sets matches_filters is applied to: fields
\* present or absent, filters set or unset
MatchTxs ==
    [signature : {"SigA"}, from_pubkey : {"PkA", None}, to_pubkey : {"PkB", None},
     program_ids : {SomeIds(<<"Prog2", "Prog1">>), SomeIds(<<>>), NoIds},
     slot : {NoneInt, 0, 3}]
MatchFilterSets ==
    [signature : {None, "SigA", "SigB"}, from : {None, "PkA"}, to : {None, "PkB"},
     program_id : {None, "Prog1"}, slot_from : {NoneInt, 1, 3}, slot_to : {NoneInt, 2}]

MatchInit ==
    /\ match_done = FALSE
    /\ match_result = FALSE
    /\ event_log = <<>>

\* one call of matches_filters
Match ==
    /\ ~match_done
    /\ match_done' = TRUE
    /\ match_result' = matches_filters(match_tx, match_filters)
    /\ UNCHANGED <<match_tx, match_filters, now>>
    /\ UNCHANGED <<authVars, ingestVars, wsVars, limiterVars, rateVars, queryVars>>

MatchNext == Match

\* the text frames a client sends: the three client messages, a server-only
\* message type, and text that is not a WsMessage
ClientTexts ==
    {[type |-> "Subscribe", filters |-> f,
      resume_from_slot |-> IF f.from # None THEN 5 ELSE NoneInt, id |-> 0] :
        f \in FilterSet}
    \cup [type : {"Unsubscribe"}, filters : {NoFilters}, resume_from_slot : {NoneInt},
          id : 1..MaxSubscriptionsPerConn]
    \cup [type : {"Pong", "Ping", "invalid"}, filters : {NoFilters},
          resume_from_slot : {NoneInt}, id : {0}]

Ack(id, f) == [type |-> "Ack", id |-> id, filters |-> f]
ErrorMsg(code) == [type |-> "Error", code |-> code]
Info(slot) == [type |-> "Info", message |-> <<"Resuming from slot", slot>>]
EventMsg(sub, tx) == [type |-> "Event", sub |-> sub, tx |-> tx]
PingMsg(ts) == [type |-> "Ping", ts |-> ts]
\* protocol frames the server writes: ctx.close(code) and ctx.pong(payload)
CloseFrame(code) == [type |-> "Close", code |-> code]
PongFrame == [type |-> "Pong"]

WsInit ==
    /\ subscriptions = {}
    /\ last_activity = 0
    /\ client_msg_count = 0
    /\ client_msg_window_start = 0
    /\ event_count = 0
    /\ event_window_start = 0
    /\ last_ping = 0
    /\ next_sub = 1
    /\ outbox = <<>>
    /\ closed = None
    /\ stopped = FALSE
    /\ frames_in = 0
    /\ emitted = 0
    /\ owed = {}
    /\ ping_due = PingInterval
    /\ idle_due = IdleCheckInterval
    /\ client_log = <<>>

\* the ingestion-side variables a session action leaves alone
ingestOnly == <<postgres, ipc, batch, last_poll, processed_batch, chunk_at, inserted,
                skipped, errors, attempts, store, dlq, received>>

\* the limit check with > for >=
SubscriptionLimitOffByOne == Cardinality(subscriptions) > MaxSubscriptionsPerConn

\* the limit check of handle_subscribe
SubscriptionLimitReached == Cardinality(subscriptions) >= MaxSubscriptionsPerConn

\* handle_subscribe
handle_subscribe(f, resume) ==
    IF SubscriptionLimitReached
    THEN /\ outbox' = Append(outbox, ErrorMsg("too_many_subscriptions"))
         /\ UNCHANGED <<subscriptions, next_sub>>
    ELSE /\ subscriptions' = subscriptions \cup
                               {[id |-> next_sub, filters |-> f, created_at |-> now]}
         /\ next_sub' = next_sub + 1
         /\ outbox' = IF resume # NoneInt
                      THEN outbox \o <<Ack(next_sub, f), Info(resume)>>
                      ELSE Append(outbox, Ack(next_sub, f))

\* an unsubscribe that drops every subscription of the session
unsubscribe_all(id) ==
    /\ subscriptions' = {}
    /\ UNCHANGED <<next_sub, outbox>>

\* handle_unsubscribe
handle_unsubscribe(id) ==
    /\ subscriptions' = {sub \in subscriptions : sub.id # id}
    /\ UNCHANGED <<next_sub, outbox>>

\* the limit check with one message more let through
ClientRateExceededLate(count) == count > MaxClientMsgPerMin + 1

\* the limit check of check_client_rate_limit, on the incremented counter
ClientRateExceeded(count) == count > MaxClientMsgPerMin

\* a handle_message that counts the frame before it parses it
HandleTextCounting(m) ==
    /\ ~stopped
    /\ frames_in < MaxFrames
    /\ frames_in' = frames_in + 1
    /\ last_activity' = now
    /\ LET reset == now - client_msg_window_start >= ClientMsgWindow
           count == (IF reset THEN 0 ELSE client_msg_count) + 1
       IN
       /\ client_msg_count' = count
       /\ client_msg_window_start' = IF reset THEN now ELSE client_msg_window_start
       /\ client_log' = IF m.type = "invalid" THEN client_log
                         ELSE Append(client_log,
                                     [msg |-> m, at |-> now,
                                      ok |-> ~ClientRateExceeded(count)])
       /\ IF ClientRateExceeded(count)
          THEN /\ outbox' = outbox \o <<ErrorMsg("rate_limited"), CloseFrame("Policy")>>
               /\ closed' = "Policy"
               /\ UNCHANGED <<subscriptions, next_sub, last_ping>>
          ELSE /\ UNCHANGED closed
               /\ CASE m.type = "Subscribe" ->
                         /\ handle_subscribe(m.filters, m.resume_from_slot)
                         /\ UNCHANGED last_ping
                    [] m.type = "Unsubscribe" ->
                         /\ handle_unsubscribe(m.id)
                         /\ UNCHANGED last_ping
                    [] m.type = "Pong" ->
                         /\ last_ping' = now
                         /\ UNCHANGED <<subscriptions, next_sub, outbox>>
                    [] OTHER ->
                         /\ outbox' = Append(outbox, ErrorMsg("invalid_message"))
                         /\ UNCHANGED <<subscriptions, next_sub, last_ping>>
    /\ UNCHANGED <<event_count, event_window_start, stopped, emitted, owed, bridge, now,
                   ping_due, idle_due>>
    /\ UNCHANGED <<authVars, ingestOnly, extVars>>

\* StreamHandler::handle, Ok(Message::Text): handle_message with
\* check_client_rate_limit and the dispatch
HandleText(m) ==
    /\ ~stopped
    /\ frames_in < MaxFrames
    /\ frames_in' = frames_in + 1
    /\ last_activity' = now
    /\ IF m.type = "invalid"
       THEN /\ outbox' = Append(outbox, ErrorMsg("invalid_message"))
            /\ UNCHANGED <<subscriptions, next_sub, client_msg_count,
                           client_msg_window_start, closed, last_ping, client_log>>
       ELSE LET reset == now - client_msg_window_start >= ClientMsgWindow
                count == (IF reset THEN 0 ELSE client_msg_count) + 1
            IN
            /\ client_msg_count' = count
            /\ client_msg_window_start' = IF reset THEN now ELSE client_msg_window_start
            /\ client_log' = Append(client_log,
                                    [msg |-> m, at |-> now,
                                     ok |-> ~ClientRateExceeded(count)])
            /\ IF ClientRateExceeded(count)
               THEN /\ outbox' = outbox \o <<ErrorMsg("rate_limited"), CloseFrame("Policy")>>
                    /\ closed' = "Policy"
                    /\ UNCHANGED <<subscriptions, next_sub, last_ping>>
               ELSE /\ UNCHANGED closed
                    /\ CASE m.type = "Subscribe" ->
                              /\ handle_subscribe(m.filters, m.resume_from_slot)
                              /\ UNCHANGED last_ping
                         [] m.type = "Unsubscribe" ->
                              /\ handle_unsubscribe(m.id)
                              /\ UNCHANGED last_ping
                         [] m.type = "Pong" ->
                              /\ last_ping' = now
                              /\ UNCHANGED <<subscriptions, next_sub, outbox>>
                         [] OTHER ->
                              /\ outbox' = Append(outbox, ErrorMsg("invalid_message"))
                              /\ UNCHANGED <<subscriptions, next_sub, last_ping>>
    /\ UNCHANGED <<event_count, event_window_start, stopped, emitted, owed, bridge, now,
                   ping_due, idle_due>>
    /\ UNCHANGED <<authVars, ingestOnly, extVars>>

ClientText == \E m \in ClientTexts : HandleText(m)

\* StreamHandler::handle, Ok(Message::Close) and Err(ProtocolError): ctx.stop()
HandleStop ==
    /\ ~stopped
    /\ frames_in < MaxFrames
    /\ frames_in' = frames_in + 1
    /\ stopped' = TRUE
    /\ UNCHANGED <<subscriptions, last_activity, client_msg_count,
                   client_msg_window_start, event_count, event_window_start, last_ping,
                   next_sub, outbox, closed, emitted, owed, bridge, now,
                   ping_due, idle_due, client_log>>
    /\ UNCHANGED <<authVars, ingestOnly, extVars>>

\* the ingestion task commits tx and calls WsBridge::emit_transaction_event
EmitEvent(tx) ==
    /\ emitted < MaxEvents
    /\ emitted' = emitted + 1
    /\ bridge' = emit_transaction_event(bridge, tx)
    /\ UNCHANGED <<subscriptions, last_activity, client_msg_count,
                   client_msg_window_start, event_count, event_window_start, last_ping,
                   next_sub, outbox, closed, stopped, frames_in, owed, now,
                   ping_due, idle_due, client_log>>
    /\ UNCHANGED <<authVars, ingestOnly, extVars>>

Emit == \E tx \in EventTxs : EmitEvent(tx)

\* WsEventDistributor::start_distribution: one event is received from the
\* channel and given to handle_event, which logs it and reaches no session
Distribute ==
    /\ bridge # <<>>
    /\ bridge' = Tail(bridge)
    /\ owed' = IF stopped \/ ~(event_count < MaxEventsPerSec)
               THEN owed
               ELSE owed \cup {<<sub.id, Head(bridge).transaction>> :
                                 sub \in {x \in subscriptions :
                                            matches_filters(Head(bridge).transaction,
                                                            x.filters)}}
    /\ UNCHANGED <<subscriptions, last_activity, client_msg_count,
                   client_msg_window_start, event_count, event_window_start, last_ping,
                   next_sub, outbox, closed, stopped, frames_in, emitted, now,
                   ping_due, idle_due, client_log>>
    /\ UNCHANGED <<authVars, ingestOnly, extVars>>

WsNext == ClientText \/ HandleStop \/ Emit \/ Distribute \/ Tick

\* the frame conditions of the session's own handlers
sessionRest == <<event_count, event_window_start, emitted, owed, bridge, client_log>>

\* StreamHandler::handle, Ok(Message::Ping): ctx.pong
HandlePing ==
    /\ ~stopped
    /\ frames_in < MaxFrames
    /\ frames_in' = frames_in + 1
    /\ outbox' = Append(outbox, PongFrame)
    /\ UNCHANGED <<subscriptions, last_activity, client_msg_count,
                   client_msg_window_start, last_ping, next_sub, closed, stopped,
                   ping_due, idle_due, now>>
    /\ UNCHANGED <<sessionRest, authVars, ingestOnly, extVars>>

\* StreamHandler::handle, Ok(Message::Pong)
HandlePong ==
    /\ ~stopped
    /\ frames_in < MaxFrames
    /\ frames_in' = frames_in + 1
    /\ last_ping' = now
    /\ UNCHANGED <<subscriptions, last_activity, client_msg_count,
                   client_msg_window_start, next_sub, outbox, closed, stopped,
                   ping_due, idle_due, now>>
    /\ UNCHANGED <<sessionRest, authVars, ingestOnly, extVars>>

\* the idle test with > for >=
is_idle_late == now - last_activity > IdleTimeout

is_idle == now - last_activity >= IdleTimeout
is_ping_overdue == now - last_ping >= PingInterval

\* Actor::started, the ping interval fires: send_ping if is_ping_overdue
PingTimer ==
    /\ ~stopped
    /\ now = ping_due
    /\ ping_due' = ping_due + PingInterval
    /\ IF is_ping_overdue
       THEN /\ outbox' = Append(outbox, PingMsg(now))
            /\ last_ping' = now
       ELSE UNCHANGED <<outbox, last_ping>>
    /\ UNCHANGED <<subscriptions, last_activity, client_msg_count,
                   client_msg_window_start, next_sub, closed, stopped, frames_in,
                   idle_due, now>>
    /\ UNCHANGED <<sessionRest, authVars, ingestOnly, extVars>>

\* Actor::started, the idle-check interval fires: ctx.close if is_idle
IdleTimer ==
    /\ ~stopped
    /\ now = idle_due
    /\ idle_due' = idle_due + IdleCheckInterval
    /\ IF is_idle
       THEN /\ outbox' = Append(outbox, CloseFrame("Normal"))
            /\ closed' = "Normal"
       ELSE UNCHANGED <<outbox, closed>>
    /\ UNCHANGED <<subscriptions, last_activity, client_msg_count,
                   client_msg_window_start, last_ping, next_sub, stopped, frames_in,
                   ping_due, now>>
    /\ UNCHANGED <<sessionRest, authVars, ingestOnly, extVars>>

\* time passes for the session; an interval that is due fires first
SessionTick ==
    /\ now < WsMaxTime
    /\ stopped \/ (now < ping_due /\ now < idle_due)
    /\ now' = now + 1
    /\ UNCHANGED <<authVars, ingestVars, wsVars, extVars>>

\* the limit test with one event more let through
EventRateOkLate(count) == count <= MaxEventsPerSec + 1

\* the limit test of check_event_rate_limit, on the incremented counter
EventRateOk(count) == count <= MaxEventsPerSec

\* one call of check_event_rate_limit on the session's ConnectionState
check_event_rate_limit ==
    /\ Len(event_log) < MaxChecks
    /\ LET reset == now - event_window_start >= EventWindow
           count == (IF reset THEN 0 ELSE event_count) + 1
       IN
       /\ event_count' = count
       /\ event_window_start' = IF reset THEN now ELSE event_window_start
       /\ event_log' = Append(event_log, [at |-> now, ok |-> EventRateOk(count)])
    /\ UNCHANGED <<subscriptions, last_activity, client_msg_count,
                   client_msg_window_start, last_ping, next_sub, outbox, closed,
                   stopped, frames_in, emitted, owed, ping_due, idle_due, client_log,
                   bridge, now>>
    /\ UNCHANGED <<authVars, ingestOnly, matchVars, rateVars, queryVars>>

\* the outbound limiter alone: calls at any times
LimiterNext == check_event_rate_limit \/ Tick

\* the session actor alone: its inbound frames and its two intervals
SessionNext ==
    ClientText \/ HandleStop \/ HandlePing \/ HandlePong \/ PingTimer \/ IdleTimer
    \/ SessionTick

(***************************************************************************)
(* HTTP rate limit                                                         *)
(***************************************************************************)
\* number of requests that enter the middleware
RlMaxReqs == 3
\* rate_limit.ip_max_requests and user_max_requests, scaled down
IpMaxRequests == 2
UserMaxRequests == 2
\* rate_limit.ip_window_secs and user_window_secs, in seconds
IpWindowSecs == 1
UserWindowSecs == 1
\* clock ticks per second under the rate limit: Instant and Duration are
\* finer than the whole seconds of Duration::as_secs
TicksPerSec == 2
\* Duration::from_secs
from_secs(secs) == secs * TicksPerSec
\* a duration read in clock ticks, not in seconds
as_ticks(d) == d
\* Duration::as_secs: the whole seconds, the rest is dropped
as_secs(d) == d \div TicksPerSec

\* what extract_client_ip, extract_user_id and req.path() give
ClientIps == {"10.0.0.1", None}
UserIds == {"W1", None}
Paths == {"/transactions", "/healthz"}
\* the requests that enter the middleware: every client IP and user on a
\* limited path, and one request on a whitelisted path
Requests ==
    [ip : ClientIps, user : UserIds, path : {"/transactions"}]
    \cup [ip : {"10.0.0.1"}, user : {None}, path : Paths \ {"/transactions"}]
RlKeys == {<<"ip", "10.0.0.1">>, <<"user", "W1">>}
is_whitelisted_path(path) == path \in {"/healthz", "/readyz"}

NoEntry == [count |-> -1, window_start |-> -1]
max_requests(scope) == IF scope = "ip" THEN IpMaxRequests ELSE UserMaxRequests
window_secs(scope) == IF scope = "ip" THEN IpWindowSecs ELSE UserWindowSecs
window_duration(scope) == from_secs(window_secs(scope))

RateInit ==
    /\ rl_store = [k \in RlKeys |-> NoEntry]
    /\ rl_pending = {}
    /\ rl_n = 0
    /\ rl_log = <<>>
    /\ rl_out = <<>>

\* a limit test that never denies
LimitNeverReached(count, max) == FALSE

\* the limit test with > for >=
LimitReachedOffByOne(count, max) == count > max

\* the limit test of a critical section
LimitReached(count, max) == count >= max

\* the window test with > for >=
WindowExpiredLate(elapsed, window) == elapsed > window

\* the window test of a critical section
WindowExpired(elapsed, window) == elapsed >= window

\* Duration::saturating_sub
saturating_sub(a, b) == IF a - b < 0 THEN 0 ELSE a - b

\* one critical section under the store's mutex, for the key <<scope, id>>:
\* entry().or_insert_with, the window reset, the limit test and the
\* increment.  RateLimitMiddleware::call inlines this code of check_limit
\* for both scopes.  Gives the entry it leaves and the verdict.
check_limit(key) ==
    LET found == IF rl_store[key] = NoEntry
                 THEN [count |-> 0, window_start |-> now]
                 ELSE rl_store[key]
        entry == IF WindowExpired(now - found.window_start, window_duration(key[1]))
                 THEN [count |-> 0, window_start |-> now]
                 ELSE found
        elapsed == now - entry.window_start
    IN
    IF LimitReached(entry.count, max_requests(key[1]))
    THEN [entry |-> entry, ok |-> FALSE,
          retry_after |-> as_secs(saturating_sub(window_duration(key[1]), elapsed))]
    ELSE [entry |-> [entry EXCEPT !.count = entry.count + 1], ok |-> TRUE,
          retry_after |-> 0]

Logged(key, r) ==
    [key |-> key, at |-> now, ok |-> r.ok, count |-> r.entry.count,
     window_start |-> r.entry.window_start]
\* the 429 response: the Retry-After header and the retry_after body field
TooManyRequests(id, r) ==
    [id |-> id, status |-> 429, header |-> r.retry_after, retry_after |-> r.retry_after]
Forwarded(id) == [id |-> id, status |-> 200, header |-> None, retry_after |-> 0]

\* RateLimitMiddleware::call up to the end of the IP section
CallIp(ip, user, path) ==
    /\ rl_n < RlMaxReqs
    /\ rl_n' = rl_n + 1
    /\ IF ~rl_enabled \/ is_whitelisted_path(path)
       THEN /\ rl_out' = Append(rl_out, Forwarded(rl_n + 1))
            /\ UNCHANGED <<rl_store, rl_pending, rl_log>>
       ELSE LET key == <<"ip", ip>>
                r == check_limit(key)
                limited == ip # None
            IN
            /\ rl_store' = IF limited THEN [rl_store EXCEPT ![key] = r.entry]
                           ELSE rl_store
            /\ rl_log' = IF limited THEN Append(rl_log, Logged(key, r)) ELSE rl_log
            /\ IF limited /\ ~r.ok
               THEN /\ rl_out' = Append(rl_out, TooManyRequests(rl_n + 1, r))
                    /\ UNCHANGED rl_pending
               ELSE IF user # None
               THEN /\ rl_pending' = rl_pending \cup {[id |-> rl_n + 1, user |-> user]}
                    /\ UNCHANGED rl_out
               ELSE /\ rl_out' = Append(rl_out, Forwarded(rl_n + 1))
                    /\ UNCHANGED rl_pending
    /\ UNCHANGED <<rl_enabled, now>>
    /\ UNCHANGED <<authVars, ingestVars, wsVars, matchVars, limiterVars, queryVars>>

RateCall == \E q \in Requests : CallIp(q.ip, q.user, q.path)

\* RateLimitMiddleware::call, the user section and the pass through
CallUser(q) ==
    /\ q \in rl_pending
    /\ rl_pending' = rl_pending \ {q}
    /\ LET key == <<"user", q.user>>
           r == check_limit(key)
       IN
       /\ rl_store' = [rl_store EXCEPT ![key] = r.entry]
       /\ rl_log' = Append(rl_log, Logged(key, r))
       /\ rl_out' = Append(rl_out, IF r.ok THEN Forwarded(q.id)
                                   ELSE TooManyRequests(q.id, r))
    /\ UNCHANGED <<rl_enabled, rl_n, now>>
    /\ UNCHANGED <<authVars, ingestVars, wsVars, matchVars, limiterVars, queryVars>>

RateUser == \E q \in rl_pending : CallUser(q)

RateNext == RateCall \/ RateUser \/ Tick

(***************************************************************************)
(* Cached query endpoint: list_transactions, the summary and the list      *)
(* read of the repository, the validator, the response cache               *)
(***************************************************************************)
\* cache.max_entries, scaled down
MaxEntries == 1
\* cache.ttl_secs, scaled down
CacheTtlSecs == 1
\* the range of limit in validate_query
MinLimit == 1
MaxLimit == 200
\* cache.etag_salt
etag_salt == ""
\* 1970-01-01, what the summary gives for MAX(created_at) over no rows; it
\* lies before the creation time of every row
UNIX_EPOCH == -1

\* signature and slot of the transactions the ingestion can insert
NewRows == {<<"SigA", 2>>, <<"SigB", 1>>, <<"SigB", 2>>}
\* A row of solana_transactions as the ingestion writes it, created_at being
\* set by the store at the insert.  Sender and block time go with the
\* signature.
Row(sig, slot, at) ==
    [signature |-> sig, slot |-> slot,
     from_pubkey |-> IF sig = "SigA" THEN "PkA" ELSE "PkB",
     to_pubkey |-> None, lamports |-> NoneInt,
     program_ids |-> SomeIds(<<"Prog1">>), instructions |-> 0,
     block_time |-> IF sig = "SigA" THEN 1704067200 ELSE NoneInt,
     created_at |-> at]

\* TransactionFilter::default()
NoFilter ==
    [signature |-> None, from_pubkey |-> None, to_pubkey |-> None,
     program_id |-> None, slot_from |-> NoneInt, slot_to |-> NoneInt]
QueryFilters ==
    {NoFilter,
     [NoFilter EXCEPT !.from_pubkey = "PkA"],
     [NoFilter EXCEPT !.slot_from = 2, !.slot_to = 2]}

\* ListQuery: the query string of GET /api/transactions after deserialization
ListQuery(f, sort_by, order, limit, offset) ==
    [signature |-> f.signature, from_pubkey |-> f.from_pubkey,
     to_pubkey |-> f.to_pubkey, program_id |-> f.program_id,
     slot_from |-> f.slot_from, slot_to |-> f.slot_to,
     sort_by |-> sort_by, order |-> order, limit |-> limit, offset |-> offset]
default_query == ListQuery(NoFilter, "slot", "desc", MaxLimit, 0)
\* every query string that passes the validation, over the filters above
ValidQueries ==
    {ListQuery(f, s, o, l, off) :
        f \in QueryFilters, s \in {"slot", "signature", "block_time"},
        o \in {"asc", "desc"}, l \in {MinLimit, MaxLimit}, off \in {0, 1}}
\* the query strings the clients send: four that pass and five that do not
ListQueries ==
    {default_query,
     ListQuery(NoFilter, "signature", "asc", MinLimit, 1),
     ListQuery([NoFilter EXCEPT !.from_pubkey = "PkA"], "block_time", "desc", MinLimit, 0),
     ListQuery([NoFilter EXCEPT !.slot_from = 2, !.slot_to = 2], "slot", "asc", MaxLimit, 1)}
    \cup {[default_query EXCEPT !.limit = l] : l \in {MinLimit - 1, MaxLimit + 1}}
    \cup {[default_query EXCEPT !.sort_by = "lamports"],
          [default_query EXCEPT !.order = "up"],
          [default_query EXCEPT !.slot_from = 2, !.slot_to = 1]}

\* the limit test with >= for >
limit_out_of_range_early(limit) == limit < MinLimit \/ limit >= MaxLimit

limit_out_of_range(limit) == limit < MinLimit \/ limit > MaxLimit

BadRequest(reason) == [status |-> 400, code |-> "bad_request", reason |-> reason]
validate_query(query) ==
    IF limit_out_of_range(query.limit)
    THEN Err(BadRequest("limit must be between 1 and 200"))
    ELSE IF query.sort_by \notin {"slot", "signature", "block_time"}
    THEN Err(BadRequest("sort_by must be one of: slot, signature, block_time"))
    ELSE IF query.order \notin {"asc", "desc"}
    THEN Err(BadRequest("order must be one of: asc, desc"))
    ELSE IF query.slot_from # NoneInt /\ query.slot_to # NoneInt
            /\ query.slot_from > query.slot_to
    THEN Err(BadRequest("slot_from must be <= slot_to"))
    ELSE Ok(query)

\* the TransactionFilter list_transactions builds from the query
build_filter(query) ==
    [signature |-> query.signature, from_pubkey |-> query.from_pubkey,
     to_pubkey |-> query.to_pubkey, program_id |-> query.program_id,
     slot_from |-> query.slot_from, slot_to |-> query.slot_to]

\* the WHERE clause that get_summary and list_with_filters build
where_clause(r, filter) ==
    /\ filter.signature # None => r.signature = filter.signature
    /\ filter.from_pubkey # None => r.from_pubkey = filter.from_pubkey
    /\ filter.to_pubkey # None => r.to_pubkey = filter.to_pubkey
    /\ filter.program_id # None =>
          /\ r.program_ids.some
          /\ \E i \in 1..Len(r.program_ids.ids) : r.program_ids.ids[i] = filter.program_id
    /\ filter.slot_from # NoneInt => r.slot >= filter.slot_from
    /\ filter.slot_to # NoneInt => r.slot <= filter.slot_to

Selected(rows, filter) == {r \in rows : where_clause(r, filter)}
MaxOf(S) == CHOOSE x \in S : \A y \in S : y <= x

\* EXISTS in the place of COUNT(*)
count_any(rows) == IF rows = {} THEN 0 ELSE 1

\* COUNT(*)
count_rows(rows) == Cardinality(rows)

get_summary(rows, filter) ==
    LET sel == Selected(rows, filter) IN
    [total |-> count_rows(sel),
     max_slot |-> IF sel = {} THEN 0 ELSE MaxOf({r.slot : r \in sel}),
     max_created_at |-> IF sel = {} THEN UNIX_EPOCH
                        ELSE MaxOf({r.created_at : r \in sel})]

\* {:?} of an Option
debug_opt(v) == IF v = None THEN <<"None">> ELSE <<"Some(", v, ")">>
debug_opt_i64(v) == IF v = NoneInt THEN <<"None">> ELSE <<"Some(", ToString(v), ")">>
\* DateTime::to_rfc3339: the whole seconds and the fraction of the second
to_rfc3339(t) == <<ToString(t \div TicksPerSec), ToString(t % TicksPerSec)>>
\* the string compute_etag formats from the query
query_str(query) ==
    <<"sig=", debug_opt(query.signature), "|from=", debug_opt(query.from_pubkey),
      "|to=", debug_opt(query.to_pubkey), "|prog=", debug_opt(query.program_id),
      "|slot_from=", debug_opt_i64(query.slot_from),
      "|slot_to=", debug_opt_i64(query.slot_to),
      "|sort=", query.sort_by, "|order=", query.order,
      "|limit=", ToString(query.limit), "|offset=", ToString(query.offset)>>
\* a validator that leaves the row count out of the digest
compute_etag_without_total(query, total, max_slot, max_created_at, salt) ==
    [weak |-> TRUE,
     digest |-> <<query_str(query), "|", ToString(max_slot),
                  "|", to_rfc3339(max_created_at), "|", salt>>]

\* The weak validator.  The SHA-1 digest is represented by the byte strings
\* fed to the hasher, in order: two validators are equal iff their inputs are.
compute_etag(query, total, max_slot, max_created_at, salt) ==
    [weak |-> TRUE,
     digest |-> <<query_str(query), "|", ToString(total), "|", ToString(max_slot),
                  "|", to_rfc3339(max_created_at), "|", salt>>]
NoEtag == [weak |-> FALSE, digest |-> <<>>]
\* the validator of a query over the rows of the store
etag_of(query, rows) ==
    LET s == get_summary(rows, build_filter(query))
    IN  compute_etag(query, s.total, s.max_slot, s.max_created_at, etag_salt)

\* a comparison that never finds the header equal
never_matches(header_etag, etag) == FALSE

\* the If-None-Match test of list_transactions
if_none_match(header_etag, etag) == header_etag # NoEtag /\ header_etag = etag

cache_key(etag) == <<"tx:list:", etag>>

\* the sequences that hold each element of S once
Orderings(S) ==
    {s \in [1..Cardinality(S) -> S] : \A i, j \in 1..Cardinality(S) : i # j => s[i] # s[j]}
\* ORDER BY slot ASC | DESC: rows of equal slot come in any order
order_by_slot(S, desc) ==
    {s \in Orderings(S) :
        \A i, j \in 1..Len(s) :
            i < j => IF desc THEN s[i].slot >= s[j].slot ELSE s[i].slot <= s[j].slot}
\* LIMIT .. OFFSET ..
limit_offset(s, limit, offset) == SubSeq(s, offset + 1, Min(Len(s), offset + limit))
\* TransactionRepository::list and list_with_filters: the results the store
\* can return
list(rows, filter, pagination, order_by_slot_desc) ==
    {limit_offset(s, pagination.limit, pagination.offset) :
        s \in order_by_slot(Selected(rows, filter), order_by_slot_desc)}

\* serde_json::to_vec of ListResponse: the fields in declaration order
to_vec(items, query, total) ==
    <<"items", items,
      "page", <<"limit", query.limit, "offset", query.offset, "total", total>>,
      "sort", <<"by", query.sort_by, "order", query.order>>>>
NoData == <<>>

\* an entry is never served
never_live(t, expires_at) == FALSE

\* MemoryCache::get: the entry is served while now < expires_at
is_live(t, expires_at) == t < expires_at

NoValue == [data |-> NoData, etag |-> NoEtag, cached_at |-> -1]
\* MemoryCache::get
cache_get(store_, key, t) ==
    IF \E en \in store_ : en.key = key /\ is_live(t, en.expires_at)
    THEN (CHOOSE en \in store_ : en.key = key).value
    ELSE NoValue
\* MemoryCache::evict_if_needed: the stores it can leave
evict_if_needed(store_) ==
    IF Cardinality(store_) >= MaxEntries /\ store_ # {}
    THEN {store_ \ {en} : en \in {x \in store_ : \A y \in store_ : x.expires_at <= y.expires_at}}
    ELSE {store_}
\* HashMap::insert under the second lock of MemoryCache::set
cache_insert(store_, key, value, t) ==
    {en \in store_ : en.key # key}
        \cup {[key |-> key, value |-> value, expires_at |-> t + from_secs(CacheTtlSecs)]}

\* a connection and its request of list_transactions: its position, what it was sent, what it
\* holds, the store and cache operations it has made, and its response
NoReply == [status |-> 0, code |-> None, etag |-> NoEtag, body |-> FALSE, data |-> NoData]
NoCall ==
    [pc |-> "idle", query |-> default_query, inm |-> NoEtag, etag |-> NoEtag,
     total |-> 0, data |-> NoData, ops |-> <<>>, seen |-> 0, reply |-> NoReply]
ErrorReply(status, code) == [NoReply EXCEPT !.status = status, !.code = code, !.body = TRUE]
NotModified(etag) == [NoReply EXCEPT !.status = 304, !.etag = etag]
OkJson(etag, data) == [status |-> 200, code |-> None, etag |-> etag, body |-> TRUE, data |-> data]
Finished(c, reply) == [c EXCEPT !.pc = "done", !.reply = reply]

QueryInit ==
    /\ table = {}
    /\ cache_store = {}
    /\ calls = <<NoCall>>

\* list_transactions up to the cache lookup: validation, the store handle,
\* the summary query, the validator, If-None-Match, the cache
ListBegin(i, query, inm, dbOk) ==
    /\ calls[i].pc \in {"idle", "done"}
    /\ LET c0 == [NoCall EXCEPT !.query = query, !.inm = inm]
           c1 == [c0 EXCEPT !.ops = <<"get_summary">>, !.seen = Cardinality(table)]
           s == get_summary(table, build_filter(query))
           etag == compute_etag(query, s.total, s.max_slot, s.max_created_at, etag_salt)
           c2 == [c1 EXCEPT !.etag = etag, !.total = s.total]
           c3 == [c2 EXCEPT !.ops = Append(c2.ops, "cache.get")]
           cached == cache_get(cache_store, cache_key(etag), now)
       IN  calls' = [calls EXCEPT ![i] =
             IF ~validate_query(query).ok
             THEN Finished(c0, ErrorReply(400, validate_query(query).err.code))
             ELSE IF ~postgres
             THEN Finished(c0, ErrorReply(503, "service_unavailable"))
             ELSE IF ~dbOk
             THEN Finished(c1, ErrorReply(500, "internal"))
             ELSE IF if_none_match(inm, etag)
             THEN Finished(c2, NotModified(etag))
             ELSE IF ~cache_enabled
             THEN [c2 EXCEPT !.pc = "list"]
             ELSE IF cached # NoValue /\ cached.etag = etag
             THEN Finished(c3, OkJson(etag, cached.data))
             ELSE [c3 EXCEPT !.pc = "list"]]
    /\ UNCHANGED <<cache_enabled, table, cache_store, now>>
    /\ UNCHANGED <<authVars, ingestVars, wsVars, matchVars, limiterVars, rateVars>>

\* a client sends no If-None-Match or the validator of the response before
ListCall == \E i \in 1..Len(calls), query \in ListQueries, dbOk \in BOOLEAN :
                \E inm \in {NoEtag, calls[i].reply.etag} : ListBegin(i, query, inm, dbOk)

\* list_transactions after a miss: the list read and the serialization
ListRead(i, dbOk) ==
    /\ calls[i].pc = "list"
    /\ LET c == calls[i]
           c1 == [c EXCEPT !.ops = Append(c.ops, "list")]
       IN  IF ~dbOk
           THEN calls' = [calls EXCEPT ![i] = Finished(c1, ErrorReply(500, "internal"))]
           ELSE \E items \in list(table, build_filter(c.query),
                                  [limit |-> c.query.limit, offset |-> c.query.offset],
                                  c.query.order = "desc") :
                  LET c2 == [c1 EXCEPT !.data = to_vec(items, c.query, c.total)]
                  IN  calls' = [calls EXCEPT ![i] =
                          IF cache_enabled THEN [c2 EXCEPT !.pc = "evict"]
                          ELSE Finished(c2, OkJson(c.etag, c2.data))]
    /\ UNCHANGED <<cache_enabled, table, cache_store, now>>
    /\ UNCHANGED <<authVars, ingestVars, wsVars, matchVars, limiterVars, rateVars>>

ListStore == \E i \in 1..Len(calls), dbOk \in BOOLEAN : ListRead(i, dbOk)

\* MemoryCache::set, first critical section
CacheEvict(i) ==
    /\ calls[i].pc = "evict"
    /\ cache_store' \in evict_if_needed(cache_store)
    /\ calls' = [calls EXCEPT ![i].pc = "insert"]
    /\ UNCHANGED <<cache_enabled, table, now>>
    /\ UNCHANGED <<authVars, ingestVars, wsVars, matchVars, limiterVars, rateVars>>

Evict == \E i \in 1..Len(calls) : CacheEvict(i)

\* MemoryCache::set, second critical section, and the 200 response
CacheInsert(i) ==
    /\ calls[i].pc = "insert"
    /\ LET c == calls[i] IN
       /\ cache_store' = cache_insert(cache_store, cache_key(c.etag),
                                      [data |-> c.data, etag |-> c.etag, cached_at |-> now],
                                      now)
       /\ calls' = [calls EXCEPT ![i] =
                      Finished([c EXCEPT !.ops = Append(c.ops, "cache.set")],
                               OkJson(c.etag, c.data))]
    /\ UNCHANGED <<cache_enabled, table, now>>
    /\ UNCHANGED <<authVars, ingestVars, wsVars, matchVars, limiterVars, rateVars>>

CacheSet == \E i \in 1..Len(calls) : CacheInsert(i)

\* the ingestion inserts a row: INSERT .. ON CONFLICT (signature) DO NOTHING
InsertRow(sig, slot) ==
    /\ postgres
    /\ table' = IF \E r \in table : r.signature = sig THEN table
                ELSE table \cup {Row(sig, slot, now)}
    /\ UNCHANGED <<cache_enabled, cache_store, calls, now>>
    /\ UNCHANGED <<authVars, ingestVars, wsVars, matchVars, limiterVars, rateVars>>

Ingest == \E tx \in NewRows : InsertRow(tx[1], tx[2])

\* the clock of the query endpoint runs until an entry cached at start-up
\* has expired
QueryTick == now < from_secs(CacheTtlSecs) /\ Tick

QueryNext == ListCall \/ ListStore \/ Evict \/ CacheSet \/ Ingest \/ QueryTick

\* The state after start-up.  AppState holds the KV and store connections
\* the configuration enables; each specification starts with the
\* connections of the other subsystems present and its own either way.
Init == AuthInit /\ IngestInit /\ WsInit /\ MatchInit /\ RateInit /\ QueryInit /\ now = 0
\* outside SpecQuery the response cache is on, as by default
CacheOn == cache_enabled = TRUE
\* outside SpecMatch no call of matches_filters is pending
NoMatch == match_tx = None /\ match_filters = None
InitAuth == Init /\ NoMatch /\ CacheOn /\ rl_enabled = TRUE /\ redis \in BOOLEAN /\ postgres = TRUE
InitIngest == Init /\ NoMatch /\ CacheOn /\ rl_enabled = TRUE /\ redis = TRUE /\ postgres \in BOOLEAN
InitWs == Init /\ NoMatch /\ CacheOn /\ rl_enabled = TRUE /\ redis = TRUE /\ postgres = TRUE
InitRate == Init /\ NoMatch /\ CacheOn /\ rl_enabled \in BOOLEAN /\ redis = TRUE /\ postgres = TRUE
InitMatch ==
    /\ Init /\ CacheOn /\ rl_enabled = TRUE /\ redis = TRUE /\ postgres = TRUE
    /\ match_tx \in MatchTxs
    /\ match_filters \in MatchFilterSets

SpecAuth == InitAuth /\ [][AuthNext]_vars

SpecIngest == InitIngest /\ [][IngestNext]_vars

SpecWs == InitWs /\ [][WsNext]_vars

\* the ingestion task with the distributor task at the other end of the bridge
BridgeNext == Recv \/ RecvError \/ Insert \/ Distribute \/ Tick \/ Shutdown
SpecBridge == InitIngest /\ [][BridgeNext]_vars

SpecSession == InitWs /\ [][SessionNext]_vars

SpecLimiter == InitWs /\ [][LimiterNext]_vars

SpecRate == InitRate /\ [][RateNext]_vars

SpecMatch == InitMatch /\ [][MatchNext]_vars

InitQuery ==
    /\ Init /\ NoMatch /\ rl_enabled = TRUE /\ redis = TRUE
    /\ postgres \in BOOLEAN /\ cache_enabled \in BOOLEAN
SpecQuery == InitQuery /\ [][QueryNext]_vars

\* The workers of the HTTP server share one response cache: two connections
\* are served at once, each asking for one of two lists without a validator.
MaxWorkers == 2
CacheQueries == {default_query, ListQuery(NoFilter, "signature", "asc", MinLimit, 1)}
ConcurrentCall ==
    \E i \in 1..Len(calls), query \in CacheQueries : ListBegin(i, query, NoEtag, TRUE)
CacheNext == ConcurrentCall \/ ListStore \/ Evict \/ CacheSet \/ QueryTick
InitCache ==
    /\ AuthInit /\ IngestInit /\ WsInit /\ MatchInit /\ RateInit /\ now = 0
    /\ NoMatch /\ CacheOn /\ rl_enabled = TRUE /\ redis = TRUE /\ postgres = TRUE
    /\ table = {} /\ cache_store = {}
    /\ calls = [i \in 1..MaxWorkers |-> NoCall]
SpecCache == InitCache /\ [][CacheNext]_vars

(***************************************************************************)
(* Claims on the wallet-auth gate                                          *)
(***************************************************************************)
\* C1: for every issued nonce and every interleaving of the protected
\* requests that present it (two GETs before either DEL included), the gate
\* passes at most one request to the protected handler.  Stated for the runs
\* in which every DEL command succeeded, so that a violation is due to the
\* interleaving alone.
C1_AtMostOneForwardPerNonce ==
    ~delFailed => \A k \in Addresses \X Nonces : fwd[k] <= 1

\* C2: once a request of wallet W was authenticated with nonce N, a request
\* of W that presents N afterwards (started after the first one was
\* forwarded, no nonce issued for W since) is not forwarded: the gate
\* answers unauthorized/nonce_missing (internal/redis_error when its GET
\* fails).  Stated for the repeat of the signed call itself (a signature
\* that verifies), the case of the scenario.
C2_RepeatRejected ==
    (lastResp.late /\ lastResp.signed) =>
        lastResp.out \in {"unauthorized/nonce_missing", "internal/redis_error"}

(***************************************************************************)
(* Claims on the ingestion pipeline                                        *)
(***************************************************************************)
\* the received messages that pass parse, normalization and validation
ValidIdx == {i \in 1..Len(received) : process_message(received[i]).ok}
ValidSigs == {process_message(received[i]).val.signature : i \in ValidIdx}
\* no message is left on the topic and the loop waits in consumer.recv()
InputConsumed == Len(received) = MaxMsgs /\ ipc = "recv"
RowsWith(sig) == {i \in 1..Len(store) : store[i].signature = sig}
DlqWithKey(k) == {i \in 1..Len(dlq) : dlq[i].key = k}
DlqOfPayload(p) ==
    {i \in 1..Len(dlq) : dlq[i].key[1] = "dlq" /\ dlq[i].original_message = p}

\* C3: once all messages have been consumed the store holds exactly K rows,
\* one per distinct signature of the valid messages, however the messages
\* were replayed and split over batches and chunks (with a store configured).
C3_ExactlyKRows ==
    (postgres /\ InputConsumed) =>
        /\ Signatures(store) = ValidSigs
        /\ Len(store) = Cardinality(ValidSigs)

\* C4: every received message that is no longer in the batch ended as a row
\* with its signature or as a DLQ entry (the raw message when it failed
\* parse/validation, the record keyed by signature otherwise), whatever the
\* store and the DLQ producer answered.
C4_RowOrDlq ==
    (ipc = "recv" /\ batch = <<>>) =>
        \A i \in 1..Len(received) :
            IF i \in ValidIdx
            THEN LET sig == process_message(received[i]).val.signature IN
                 RowsWith(sig) # {} \/ DlqWithKey(sig) # {}
            ELSE Cardinality(DlqOfPayload(received[i])) >=
                 Cardinality({j \in 1..Len(received) : received[j] = received[i]})

\* C5: after two identical records with the signature "S1" (non-empty,
\* slot >= 0) were fed, the store holds exactly one row with that signature
\* and the DLQ holds no entry.
C5_TwoS1OneRow ==
    (postgres /\ received = <<"S1", "S1">>) =>
        /\ Cardinality(RowsWith("S1")) = 1
        /\ dlq = <<>>

\* C6: a message that fails the size check, parsing or validation produces
\* exactly one DLQ entry, whose error is the failure reason and whose
\* original_message is the payload, adds no row and leaves the batch and the
\* last-flush time unchanged.
C6_MalformedToDlq ==
    [][(received' # received /\ ~process_message(received'[Len(received')]).ok) =>
          /\ Len(dlq') = Len(dlq) + 1
          /\ dlq'[Len(dlq')].error = process_message(received'[Len(received')]).err
          /\ dlq'[Len(dlq')].original_message = received'[Len(received')]
          /\ store' = store
          /\ batch' = batch
          /\ last_poll' = last_poll]_vars

\* C7: when the store failed on every attempt of a flush, the bulk insert was
\* attempted exactly max_retries times, every record of the batch is in the
\* DLQ under its signature, and the batch is cleared.
AllChunksFailed ==
    /\ ipc = "recv"
    /\ attempts >= 1
    /\ processed_batch # <<>>
    /\ Len(errors) = Len(processed_batch)
C7_RetryThenDlq ==
    AllChunksFailed =>
        /\ attempts = MaxRetries
        /\ \A i \in 1..Len(processed_batch) :
              DlqWithKey(processed_batch[i].signature) # {}
        /\ batch = <<>>

\* C8: a non-empty batch is flushed as soon as it holds db_insert_batch_size
\* records or poll_interval has elapsed since the last flush, also when no
\* further message arrives: while the loop waits for a message, a non-empty
\* batch is below the batch size and not older than poll_interval.
C8_FlushWhenDue ==
    (postgres /\ ipc = "recv" /\ batch # <<>>) =>
        /\ Len(batch) < BatchSize
        /\ now - last_poll <= PollInterval

\* C9: when the process has exited on a shutdown signal, the final flush has
\* been done: no accepted record is left in the batch.
C9_ShutdownFlushes ==
    ipc = "exited" => batch = <<>>

\* the events put on the bridge for the signature sig
EventsWith(sig) == {i \in 1..Len(bridge) : bridge[i].transaction.signature = sig}

\* C11: a fan-out event is emitted for a transaction only if the flush newly
\* inserted its signature: over any sequence of batches every signature has
\* at most as many events as it has rows (at most one), so a skipped
\* duplicate and a record that was not stored have no event of their own.
C11_EventOnlyForNewRow ==
    \A p \in PayloadNames :
        process_message(p).ok =>
            Cardinality(EventsWith(process_message(p).val.signature)) <=
            Cardinality(RowsWith(process_message(p).val.signature))

(***************************************************************************)
(* Claims on the live subscription channel                                 *)
(***************************************************************************)
\* C10: a session that holds a subscription matching a committed transaction
\* receives an Event{sub, tx} with that subscription's id once the event has
\* passed the bridge (and the outbound limiter had room), and every Event it
\* receives is for a transaction that matched the subscription named in it.
C10_MatchingEventDelivered ==
    /\ \A o \in owed :
          \E i \in 1..Len(outbox) : outbox[i] = EventMsg(o[1], o[2])
    /\ \A i \in 1..Len(outbox) :
          outbox[i].type = "Event" => <<outbox[i].sub, outbox[i].tx>> \in owed

\* the step handles one more client message that passed the JSON parse
ClientMessageStep == Len(client_log') = Len(client_log) + 1
LastLogged == client_log'[Len(client_log')]
\* the frames the step writes to the client
Written == SubSeq(outbox', Len(outbox) + 1, Len(outbox'))
SubscriptionIds == {sub.id : sub \in subscriptions}
AckedIds == {outbox[i].id : i \in {j \in 1..Len(outbox) : outbox[j].type = "Ack"}}

\* C13: a session never holds more than max_subscriptions_per_conn
\* subscriptions; a Subscribe received at the limit is answered with
\* Error{too_many_subscriptions} and changes no subscription; an accepted
\* Subscribe adds exactly one subscription, under an id not used before in
\* the session, and the Ack echoes that id and the filters of the request.
C13_SubscriptionLimit ==
    /\ [](/\ Cardinality(subscriptions) <= MaxSubscriptionsPerConn
          /\ Cardinality(SubscriptionIds) = Cardinality(subscriptions))
    /\ [][(ClientMessageStep /\ LastLogged.ok /\ LastLogged.msg.type = "Subscribe") =>
             IF Cardinality(subscriptions) = MaxSubscriptionsPerConn
             THEN /\ Written = <<ErrorMsg("too_many_subscriptions")>>
                  /\ subscriptions' = subscriptions
             ELSE \E sub \in subscriptions' :
                     /\ sub \notin subscriptions
                     /\ subscriptions' = subscriptions \cup {sub}
                     /\ sub.id \notin SubscriptionIds \cup AckedIds
                     /\ sub.filters = LastLogged.msg.filters
                     /\ Written[1] = Ack(sub.id, LastLogged.msg.filters)]_vars
\* a Subscribe was refused at the limit
C13_Witness ==
    /\ Cardinality(subscriptions) = MaxSubscriptionsPerConn
    /\ \E i \in 1..Len(outbox) : outbox[i] = ErrorMsg("too_many_subscriptions")

\* the client messages dispatched in the current window of the inbound limiter
DispatchedInWindow ==
    {i \in 1..Len(client_log) :
        client_log[i].ok /\ client_log[i].at >= client_msg_window_start}

\* C14: within one window of the inbound fixed-window limiter at most
\* max_client_msg_per_min client messages are dispatched; the next message of
\* that window is answered with Error{rate_limited} followed by a close with
\* the policy-violation code and is not dispatched: it adds or removes no
\* subscription.
C14_InboundRateLimit ==
    /\ [](Cardinality(DispatchedInWindow) <= MaxClientMsgPerMin)
    /\ [][(/\ ClientMessageStep
           /\ Cardinality(DispatchedInWindow) = MaxClientMsgPerMin
           /\ now - client_msg_window_start < ClientMsgWindow) =>
             /\ ~LastLogged.ok
             /\ Written = <<ErrorMsg("rate_limited"), CloseFrame("Policy")>>
             /\ subscriptions' = subscriptions]_vars
\* a Subscribe arrived as the message after the last permitted one and was
\* refused
C14_Witness ==
    \E i \in 1..Len(client_log) :
        /\ ~client_log[i].ok
        /\ client_log[i].msg.type = "Subscribe"
        /\ closed = "Policy"

\* C15: once a close has been initiated (idle timeout or inbound-rate
\* violation) or the session was stopped (peer close, protocol error), the
\* session dispatches no further client message: no Subscribe arriving after
\* that is accepted and acknowledged.
C15_ClosedSessionTerminated ==
    [][(closed # None \/ stopped) => ~(ClientMessageStep /\ LastLogged.ok)]_vars

\* C16: while the session is open, a Ping is sent at every firing of the
\* ping interval, whether or not the client answered the previous Ping.
C16_PingEveryInterval ==
    [][(ping_due' # ping_due) => Written = <<PingMsg(now)>>]_vars

\* C17: every inbound frame that leaves the session running (text,
\* protocol-level Ping, protocol-level Pong) refreshes last_activity.
C17_AnyFrameRefreshesActivity ==
    [][(frames_in' = frames_in + 1 /\ ~stopped') => last_activity' = now]_vars

\* C18: the idle check closes the session with the normal-closure code when
\* now - last_activity >= idle_timeout_secs and only then: every firing of
\* the check closes iff the session is idle, a normal closure is written
\* only for an idle session, and a session idle for a whole check interval
\* has been closed.
C18_IdleClose ==
    /\ [][(idle_due' # idle_due) =>
             IF now - last_activity >= IdleTimeout
             THEN Written = <<CloseFrame("Normal")>> /\ closed' = "Normal"
             ELSE Written = <<>> /\ closed' = closed]_vars
    /\ [][(\E i \in 1..Len(Written) : Written[i] = CloseFrame("Normal")) =>
             now - last_activity >= IdleTimeout]_vars
    /\ []((~stopped /\ now - last_activity >= IdleTimeout + IdleCheckInterval) =>
             closed = "Normal")
\* a session that had received a frame became idle and the check closed it
C18_Witness ==
    /\ closed = "Normal"
    /\ now - last_activity >= IdleTimeout
    /\ outbox[Len(outbox)] = CloseFrame("Normal")
    /\ frames_in > 0

\* the events the outbound limiter admitted in its current window
AdmittedInWindow ==
    {i \in 1..Len(event_log) : event_log[i].ok /\ event_log[i].at >= event_window_start}
EventCheckStep == Len(event_log') = Len(event_log) + 1

\* C19: the outbound limiter admits at most max_events_per_sec events in one
\* window; an event is admitted iff the window still has room or has run out
\* (and is reset by the call), so every further event of a full window is
\* rejected and events are admitted again after the reset.
C19_OutboundLimiter ==
    /\ [](Cardinality(AdmittedInWindow) <= MaxEventsPerSec)
    /\ [][EventCheckStep =>
             (event_log'[Len(event_log')].ok <=>
                 \/ now - event_window_start >= EventWindow
                 \/ Cardinality(AdmittedInWindow) < MaxEventsPerSec)]_vars
\* an event was rejected in a full window and a later one admitted after the
\* reset
C19_Witness ==
    \E i, j \in 1..Len(event_log) :
        /\ i < j
        /\ ~event_log[i].ok
        /\ event_log[j].ok
        /\ Cardinality({k \in 1..(i - 1) :
                           event_log[k].ok /\ event_log[k].at = event_log[i].at})
              = MaxEventsPerSec

(***************************************************************************)
(* Claims on the HTTP rate limit                                           *)
(***************************************************************************)
\* the passes through the critical section of key k in k's current window
WindowLog(k) ==
    LET InWindow(x) == x.key = k /\ x.at >= rl_store[k].window_start
    IN SelectSeq(rl_log, InWindow)

\* C20: for one key and one window, under any interleaving of the requests,
\* exactly the first `limit` requests are permitted, with the counter values
\* 1..limit, and every later request of the window is denied with 429: the
\* one transition from permitted to denied is at count = limit.
C20_FirstLimitPermitted ==
    /\ \A k \in RlKeys :
          rl_store[k] # NoEntry =>
              \A j \in 1..Len(WindowLog(k)) :
                  IF j <= max_requests(k[1])
                  THEN WindowLog(k)[j].ok /\ WindowLog(k)[j].count = j
                  ELSE ~WindowLog(k)[j].ok
                       /\ WindowLog(k)[j].count = max_requests(k[1])
    /\ Cardinality({i \in 1..Len(rl_out) : rl_out[i].status = 429})
          = Cardinality({i \in 1..Len(rl_log) : ~rl_log[i].ok})
\* the IP key has had a request denied in its window after `limit` permitted
\* ones while another request was between its two sections
C20_Witness ==
    /\ rl_store[<<"ip", "10.0.0.1">>] # NoEntry
    /\ Len(WindowLog(<<"ip", "10.0.0.1">>)) > IpMaxRequests
    /\ rl_pending # {}

\* the step passes through one critical section of the store
RateStep == Len(rl_log') = Len(rl_log) + 1
LastRate == rl_log'[Len(rl_log')]

\* C21: a request that arrives with now - window_start >= window for its key
\* resets the counter and sets window_start to now before the limit test, so
\* it is permitted and leaves count = 1; while now - window_start < window
\* neither the counter nor window_start is reset.
C21_WindowReset ==
    [][(RateStep /\ rl_store[LastRate.key] # NoEntry) =>
          LET k == LastRate.key
              before == rl_store[k]
              after == rl_store'[k]
          IN
          IF now - before.window_start >= window_secs(k[1]) * TicksPerSec
          THEN LastRate.ok /\ after = [count |-> 1, window_start |-> now]
          ELSE /\ after.window_start = before.window_start
               /\ after.count >= before.count]_vars
\* a key's window ran out and the next request of the key started a new one
C21_Witness ==
    \E i, j \in 1..Len(rl_log) :
        /\ i < j
        /\ rl_log[i].key = rl_log[j].key
        /\ rl_log[j].window_start = rl_log[j].at
        /\ rl_log[j].window_start > rl_log[i].window_start
        /\ rl_log[j].ok /\ rl_log[j].count = 1

\* C22: every denied request carries a Retry-After header and a retry_after
\* body field equal to the whole seconds of window - elapsed since
\* window_start, a value within [0, window].
C22_RetryAfter ==
    [][(RateStep /\ ~LastRate.ok) =>
          LET k == LastRate.key
              left == window_secs(k[1]) * TicksPerSec - (now - LastRate.window_start)
              resp == rl_out'[Len(rl_out')]
          IN
          /\ Len(rl_out') = Len(rl_out) + 1
          /\ resp.status = 429
          /\ resp.header = left \div TicksPerSec
          /\ resp.retry_after = left \div TicksPerSec
          /\ resp.header >= 0
          /\ resp.header <= window_secs(k[1])]_vars
\* a request was denied part of a second into the window: the remaining time
\* is not a whole number of seconds
C22_Witness ==
    \E i \in 1..Len(rl_log) :
        /\ ~rl_log[i].ok
        /\ (rl_log[i].at - rl_log[i].window_start) % TicksPerSec # 0
        /\ \E j \in 1..Len(rl_out) : rl_out[j].status = 429

(***************************************************************************)
(* Claims on the cached query endpoint                                     *)
(***************************************************************************)
\* C23: an insert of a new row that matches the filter of a query changes
\* the summary (total, max_slot, max_created_at) of that filter, and with it
\* the validator of every query with that filter
C23_InsertChangesEtag ==
    [][\A query \in ValidQueries :
          (\E r \in table' \ table : where_clause(r, build_filter(query)))
              => /\ get_summary(table', build_filter(query))
                        # get_summary(table, build_filter(query))
                 /\ etag_of(query, table') # etag_of(query, table)]_vars
\* two rows of the same creation time are stored, the one of the lower or
\* equal slot inserted without moving max_slot or max_created_at
C23_Witness ==
    \E r1, r2 \in table :
        r1 # r2 /\ r1.created_at = r2.created_at /\ r2.slot <= r1.slot

\* C24: while the store is unchanged the validator of a query is the same on
\* every call, and a request whose If-None-Match equals it gets 304 with the
\* ETag header and no body, after the summary query alone
C24_NotModified ==
    \A i \in 1..Len(calls) :
        LET c == calls[i] IN
        /\ (c.etag # NoEtag /\ c.seen = Cardinality(table))
              => c.etag = etag_of(c.query, table)
        /\ (c.pc = "done" /\ c.etag # NoEtag /\ c.inm = c.etag)
              => /\ c.reply = [status |-> 304, code |-> None, etag |-> c.etag,
                               body |-> FALSE, data |-> NoData]
                 /\ c.ops = <<"get_summary">>
C24_Witness ==
    \E i \in 1..Len(calls) :
        /\ calls[i].pc = "done" /\ calls[i].reply.status = 304
        /\ calls[i].inm = calls[i].etag /\ table # {}

\* the step by which connection i starts a request
ListBeginStep(i) == calls[i].pc \in {"idle", "done"} /\ calls'[i] # calls[i]
\* C25: with the cache enabled a miss runs the list read and stores the
\* serialized bytes under the validator with the configured TTL, and a
\* request that finds a live entry under its validator returns the entry's
\* bytes and the validator without the list read
C25_CacheMissThenHit ==
    [][cache_enabled =>
        \A i \in 1..Len(calls) :
            LET c == calls'[i] IN
            /\ (ListBeginStep(i) /\ c.pc = "list")
                  => c.ops = <<"get_summary", "cache.get">>
            /\ ~(calls[i].pc = "list" /\ c.pc = "done" /\ c.reply.status = 200)
            /\ (calls[i].pc = "insert" /\ c.pc = "done")
                  => /\ c.ops = <<"get_summary", "cache.get", "list", "cache.set">>
                     /\ c.reply = [status |-> 200, code |-> None, etag |-> c.etag,
                                   body |-> TRUE, data |-> c.data]
                     /\ \E en \in cache_store' :
                          /\ en.key = <<"tx:list:", c.etag>>
                          /\ en.value.data = c.reply.data
                          /\ en.expires_at = now + CacheTtlSecs * TicksPerSec
                     /\ \A en \in cache_store' :
                          en.key = <<"tx:list:", c.etag>> => en.value.data = c.reply.data
            /\ (ListBeginStep(i) /\ c.etag # NoEtag /\ c.inm # c.etag)
                  => \A en \in cache_store :
                        (en.key = <<"tx:list:", c.etag>> /\ now < en.expires_at)
                            => /\ c.pc = "done"
                               /\ c.reply = [status |-> 200, code |-> None,
                                             etag |-> c.etag, body |-> TRUE,
                                             data |-> en.value.data]
                               /\ c.ops = <<"get_summary", "cache.get">>]_vars
\* a request was answered from the cache
C25_Witness ==
    \E i \in 1..Len(calls) :
        /\ calls[i].pc = "done" /\ calls[i].reply.status = 200
        /\ calls[i].ops = <<"get_summary", "cache.get">>
        /\ calls[i].reply.data # NoData

\* the order of the signatures as strings
SigRank(sig) == IF sig = "SigA" THEN 1 ELSE 2
\* rows a and b may follow each other in this order under (sort_by, order);
\* a missing block_time is left free
InOrder(a, b, sort_by, order) ==
    LET ka == CASE sort_by = "slot" -> a.slot
                [] sort_by = "signature" -> SigRank(a.signature)
                [] OTHER -> a.block_time
        kb == CASE sort_by = "slot" -> b.slot
                [] sort_by = "signature" -> SigRank(b.signature)
                [] OTHER -> b.block_time
    IN  \/ ka = NoneInt \/ kb = NoneInt
        \/ IF order = "desc" THEN ka >= kb ELSE ka <= kb
\* what the list endpoint is to return for a query over the rows
Expected(rows, query) ==
    {limit_offset(s, query.limit, query.offset) :
        s \in {t \in Orderings(Selected(rows, build_filter(query))) :
                 \A i, j \in 1..Len(t) :
                     i < j => InOrder(t[i], t[j], query.sort_by, query.order)}}
\* C26: the list read returns the rows that match the filter, sorted by the
\* requested sort_by key in the requested order, cut to the window
C26_ListSorted ==
    [][\A i \in 1..Len(calls) :
          (calls[i].pc = "list" /\ calls'[i].data # NoData)
              => calls'[i].data[2] \in Expected(table, calls[i].query)]_vars

\* C27: limit outside [1, 200], sort_by or order outside the allowed sets,
\* or slot_from > slot_to is answered 400 bad_request before any store
\* call; limit 1 and limit 200 are accepted
C27_Validation ==
    \A i \in 1..Len(calls) :
        LET c == calls[i]
            q == c.query
            rejected ==
                \/ q.limit < 1 \/ q.limit > 200
                \/ q.sort_by \notin {"slot", "signature", "block_time"}
                \/ q.order \notin {"asc", "desc"}
                \/ (q.slot_from # NoneInt /\ q.slot_to # NoneInt /\ q.slot_from > q.slot_to)
        IN  c.pc # "idle" =>
              IF rejected
              THEN /\ c.pc = "done" /\ c.reply.status = 400
                   /\ c.reply.code = "bad_request" /\ c.ops = <<>>
              ELSE c.reply.status # 400
C27_Witness ==
    \E i \in 1..Len(calls) :
        /\ calls[i].query.limit = 201 /\ calls[i].reply.status = 400
        /\ table # {} /\ postgres

(***************************************************************************)
(* Claims on the events of a flush and on the batch after it               *)
(***************************************************************************)
\* C32: after a successful flush with emit_ws_events enabled the events put
\* on the bridge are exactly the first `inserted` entries of the batch as
\* submitted, inserted being the rows the store reported and never more than
\* the batch length, in batch order, and the distributor receives the events
\* of the bridge in the order they were put on it.
C32_EventsArePrefixInOrder ==
    [][/\ (ipc = "insert" /\ ipc' = "recv" /\ emit_ws_events) =>
            /\ processed_batch = batch
            /\ inserted' <= Len(batch)
            /\ inserted' = Len(store') - (Len(store) - inserted)
            /\ Len(bridge') = Len(bridge) + inserted'
            /\ \A i \in 1..inserted' :
                  bridge'[Len(bridge) + i] =
                      [transaction |-> batch[i], event_type |-> "transaction"]
            /\ SubSeq(bridge', 1, Len(bridge)) = bridge
       /\ (Len(bridge') < Len(bridge)) =>
            bridge # <<>> /\ bridge' = Tail(bridge)]_vars
\* a batch of three with two rows inserted gave two events, and the
\* distributor has received the first of them
C32_Witness ==
    /\ ipc = "recv" /\ Len(processed_batch) = 3 /\ inserted = 2
    /\ bridge = <<[transaction |-> processed_batch[2], event_type |-> "transaction"]>>
    /\ processed_batch[1] # processed_batch[2]

\* C40: after every flush attempt (process_batch) the in-memory batch is
\* empty, so between messages its length never exceeds db_insert_batch_size,
\* whatever the outcome of the store operation and also when no store
\* connection is available.
C40_BatchEmptyAfterFlush ==
    /\ [](ipc = "recv" => Len(batch) <= BatchSize)
    /\ [][/\ (ipc = "insert" /\ ipc' = "recv") => batch' = <<>>
          /\ (/\ ipc = "recv" /\ ipc' = "recv" /\ Len(received') > Len(received)
              /\ process_message(received'[Len(received')]).ok
              /\ (Len(batch) + 1 >= BatchSize \/ now - last_poll >= PollInterval))
                 => batch' = <<>>]_vars

(***************************************************************************)
(* Claims on Unsubscribe and on text frames that do not parse              *)
(***************************************************************************)
\* C33: a dispatched Unsubscribe{id} removes exactly the subscription with
\* that id and no other; with an id unknown to the session the subscription
\* set is unchanged and no frame is sent to the client.
C33_UnsubscribeExactlyOne ==
    [][(ClientMessageStep /\ LastLogged.ok /\ LastLogged.msg.type = "Unsubscribe") =>
          LET id == LastLogged.msg.id IN
          /\ \A sub \in subscriptions : sub \in subscriptions' <=> sub.id # id
          /\ subscriptions' \subseteq subscriptions
          /\ id \notin SubscriptionIds => subscriptions' = subscriptions /\ Written = <<>>]_vars
\* an Unsubscribe removed one of two subscriptions and the other is held
C33_Witness ==
    \E i \in 1..Len(client_log) :
        /\ client_log[i].ok /\ client_log[i].msg.type = "Unsubscribe"
        /\ client_log[i].msg.id \in AckedIds \ SubscriptionIds
        /\ subscriptions # {}

\* a text frame that is not valid protocol JSON
InvalidText ==
    [type |-> "invalid", filters |-> NoFilters, resume_from_slot |-> NoneInt, id |-> 0]
\* C38: a text frame that is not valid protocol JSON is answered with
\* Error{invalid_message} and leaves the subscription set and the inbound
\* rate counter unchanged (it refreshes last_activity only); it never closes
\* the session, however many such frames arrive within one window.
C38_InvalidTextNotCounted ==
    [][(frames_in' # frames_in /\ HandleText(InvalidText)) =>
          /\ Written = <<ErrorMsg("invalid_message")>>
          /\ subscriptions' = subscriptions
          /\ client_msg_count' = client_msg_count
          /\ client_msg_window_start' = client_msg_window_start
          /\ last_activity' = now
          /\ closed' = closed /\ stopped' = stopped]_vars
\* more such frames than the inbound limit were answered within one window
\* and the session is open
C38_Witness ==
    /\ Cardinality({i \in 1..Len(outbox) : outbox[i] = ErrorMsg("invalid_message")})
          > MaxClientMsgPerMin
    /\ client_msg_count = 0 /\ now < ClientMsgWindow
    /\ closed = None /\ ~stopped

Rejections ==
    {"bad_request", "unauthorized/nonce_mismatch", "bad_request/invalid_pubkey",
     "bad_request/invalid_signature", "unauthorized/invalid_signature",
     "internal/verification_error"}
\* C34: an attempt the gate rejects (missing headers, nonce_mismatch,
\* undecodable address or signature, invalid signature, verification error)
\* leaves the nonce bindings in KV unchanged, so that a request of the same
\* wallet with the stored nonce and a valid signature is still verified.
C34_RejectionKeepsNonce ==
    [][\A i \in ReqIds :
          (/\ req[i].pc \in {"idle", "get"} /\ req'[i].pc = "done"
           /\ lastResp'.gated /\ lastResp'.out \in Rejections)
              => /\ kv' = kv
                 /\ req[i].pc = "get" =>
                      LET a == req[i].address IN
                      (kv[a] # NoNonce /\ DecodedLen(a) = 32 /\ OnCurve(a))
                          => GateVerdict([req[i] EXCEPT !.nonce = kv'[a], !.sig = "valid"],
                                         TRUE) = "verified"]_vars
\* the only nonce issued is still bound after an attempt with a wrong
\* signature was rejected, and a request that presents it has been verified
C34_Witness ==
    /\ lastResp.out = "unauthorized/invalid_signature" /\ lastResp.gated
    /\ nextNonce = 2 /\ kv["W1"] = 1
    /\ \E i \in ReqIds : req[i].pc = "del" /\ req[i].address = "W1" /\ req[i].nonce = 1

\* C35: a successful verification of nonce N1 consumes only N1: a nonce N2
\* issued for the same wallet between the gate's GET and its DEL is still
\* stored after the verification completes.
C35_ConsumesOnlyItsNonce ==
    [][\A i \in ReqIds :
          (req[i].pc = "del" /\ req'[i].pc = "done")
              => LET a == req[i].address IN
                 (kv[a] # NoNonce /\ kv[a] # req[i].nonce) => kv'[a] = kv[a]]_vars

\* C36: the gate forwards a request only if the nonce binding was removed:
\* when the DEL fails the request is not forwarded, so the nonce of a
\* forwarded request is no longer stored.
C36_ForwardedOnlyIfRemoved ==
    [][\A i \in ReqIds :
          (req[i].pc = "del" /\ fwd'[<<req[i].address, req[i].nonce>>] > fwd[<<req[i].address, req[i].nonce>>])
              => kv'[req[i].address] # req[i].nonce]_vars

C31_CacheBounded == Cardinality(cache_store) <= MaxEntries

(***************************************************************************)
(* Claims on the order of the gate's checks and on the nonce endpoint      *)
(***************************************************************************)
\* C28: for a protected request that is not bypassed the first failing check
\* decides: an absent header gives bad_request with the absent names and no
\* KV command; then no stored nonce gives unauthorized/nonce_missing; then a
\* stored nonce other than the presented one gives
\* unauthorized/nonce_mismatch; then a signature that does not verify gives
\* unauthorized/invalid_signature; none of these requests is forwarded
C28_FirstFailingCheck ==
    [][/\ \A i \in ReqIds, missing \in (SUBSET HeaderNames) \ {{}} :
            \* with a header absent the gate looks at no header value
            (req[i].pc = "idle" /\ req'[i].pc # "idle"
             /\ CallStart(i, "protected", missing, "W1", 1, "valid"))
                => /\ lastResp'.out = "bad_request" /\ lastResp'.missing = missing
                   /\ req'[i].pc = "done" /\ kv' = kv /\ fwd' = fwd
       /\ \A i \in ReqIds :
            (req[i].pc = "get" /\ CallGet(i, TRUE)) =>
                LET r == req[i] IN
                IF kv[r.address] = NoNonce
                THEN /\ lastResp'.out = "unauthorized/nonce_missing"
                     /\ req'[i].pc = "done" /\ fwd' = fwd
                ELSE IF kv[r.address] # r.nonce
                THEN /\ lastResp'.out = "unauthorized/nonce_mismatch"
                     /\ req'[i].pc = "done" /\ fwd' = fwd
                ELSE IF DecodedLen(r.address) = 32 /\ OnCurve(r.address) /\ r.sig = "wrong"
                THEN /\ lastResp'.out = "unauthorized/invalid_signature"
                     /\ req'[i].pc = "done" /\ fwd' = fwd
                ELSE TRUE]_vars
\* a request with a signature that does not verify was answered
\* nonce_mismatch: the nonce check came first
C28_Witness ==
    /\ lastResp.out = "unauthorized/nonce_mismatch"
    /\ lastResp.gated /\ ~lastResp.signed

\* C29: an address has one nonce binding at most, the one issued last;
\* issuing a nonce replaces the binding, a request that then presents
\* another nonce is answered unauthorized/nonce_mismatch, and only the
\* nonce of the binding passes the nonce check
C29_OneLiveNonce ==
    [][/\ \A a \in Addresses :
            kv'[a] # kv[a] =>
                \/ kv'[a] = NoNonce
                \/ kv'[a] = nextNonce /\ nonceResp' = [status |-> "ok", nonce |-> nextNonce]
       /\ \A i \in ReqIds :
            (req[i].pc = "get" /\ CallGet(i, TRUE)) =>
                LET r == req[i] IN
                /\ (kv[r.address] # NoNonce /\ kv[r.address] # r.nonce)
                      => /\ lastResp'.out = "unauthorized/nonce_mismatch"
                         /\ req'[i].pc = "done" /\ fwd' = fwd
                /\ req'[i].pc = "del" => r.nonce = kv[r.address]]_vars
\* nonce 1 of W1 was used, nonce 2 replaced it, and a request that presented
\* nonce 1 again was answered nonce_mismatch
C29_Witness ==
    /\ fwd[<<"W1", 1>>] = 1
    /\ kv = [a \in Addresses |-> IF a = "W1" THEN 2 ELSE NoNonce]
    /\ lastResp.out = "unauthorized/nonce_mismatch"

\* C30: when the KV store is unavailable to the nonce endpoint, no
\* connection configured or SETEX failed, the response is
\* service_unavailable and carries no nonce
C30_NonceEndpointUnavailable ==
    [][(nextNonce' # nextNonce /\ nonceResp'.status # "ok")
          => nonceResp' = [status |-> "service_unavailable", nonce |-> 0]]_vars

\* what the filter contract asks of a transaction: every set field is
\* satisfied, and a field that is absent satisfies no set filter
Satisfies(tx, f) ==
    /\ (f.signature # None => tx.signature = f.signature)
    /\ (f.from # None => tx.from_pubkey = f.from)
    /\ (f.to # None => tx.to_pubkey = f.to)
    /\ (f.program_id # None =>
          \E i \in 1..Len(tx.program_ids.ids) : tx.program_ids.ids[i] = f.program_id)
    /\ (f.slot_from # NoneInt => (tx.slot # NoneInt /\ tx.slot >= f.slot_from))
    /\ (f.slot_to # NoneInt => (tx.slot # NoneInt /\ tx.slot <= f.slot_to))

\* C12: matches_filters(tx, F) is true iff every set field of F is satisfied
\* by tx (signature/from/to equal, program_id an element of program_ids, slot
\* within [slot_from, slot_to]); a transaction that lacks a constrained
\* field, slot included, does not match.
C12_MatchesIffSatisfies ==
    match_done => (match_result <=> Satisfies(match_tx, match_filters))

====
